---- MODULE Spec2Model ----
(***************************************************************************)
(* Model of the canary fault-injection and scenario-orchestration          *)
(* subsystem: examples/python/canary/{providers,faults,factory,agent,      *)
(* scenarios,runner,config}.py.                                            *)
(*                                                                         *)
(* Numbers.  Rates and ratios are the rationals n/RateDen, held as their   *)
(* numerator n; a uniform sample of random.random() is k/SampleDen with    *)
(* k in 0..SampleDen-1, held as k.  Python's None for an integer limit is  *)
(* the value None (-1).  Strings are held by their length where only the   *)
(* length is used, and as sequences of words where their text is matched.  *)
(* The Random(42) stream is an arbitrary sequence of draws: each draw is a *)
(* free input of the call that consumes it, and rng_pos counts the draws   *)
(* consumed so far.                                                        *)
(***************************************************************************)
EXTENDS Integers, Sequences, FiniteSets, TLC

\* ---------------------------------------------------------------- bounds
RateDen == 5
SampleDen == 4
MaxCalls == 10
MaxScenarios == 2
MaxProfiles == 2
MaxOps == 2

\* nodes declared under config["agent"], the root included
MaxNodes == 4

\* ------------------------------------------------------------ vocabulary
None == 0 - 1

Patterns == {"random", "periodic", "burst"}

Rates == 0..RateDen

Samples == 0..(SampleDen - 1)

BurstDraws == 2..4

ToolNames == {"get_weather", "search", "get_time"}

NoProvider == [kind |-> "none"]

VARIABLES
  llm_provider,   \* the LLM provider of the root agent (or the instance under test)
  tool_provider,  \* the tool provider of the root agent (or the instance under test)
  llm_last,       \* outcome of the most recent MockLLMProvider.call
  tool_last,      \* outcome of the most recent MockToolProvider.execute
  hist,           \* history counters of the calls made so far
  pc,             \* position of CanaryRunner.run ("harness": no runner, a provider is driven directly)
  config_file,    \* the configuration file at config_path, parsed
  config,         \* CanaryRunner.config
  fault_config,   \* CanaryRunner.fault_config
  results,        \* CanaryRunner.results
  run_results,    \* the local list `results` of _execute_scenarios
  scenario_idx,   \* position of the loop of _execute_scenarios in config["scenarios"]
  step,           \* next agent.invoke of the scenario being executed (0: none is)
  started_at,     \* start_time of the scenario being executed
  clock,          \* time.time(), in ms slept so far
  exit_code,      \* the local exit_code of run (None until the summary sets it)
  outcome,        \* how run ended: running, returned a value, or raised
  phases,         \* the phases run has passed through, in order
  summary,        \* the counts _generate_summary computed
  bench           \* agents built and driven directly, without a runner

provider_vars == <<llm_provider, tool_provider, llm_last, tool_last>>

runner_vars == <<config_file, config, fault_config, results, run_results, scenario_idx, step,
                 started_at, clock, exit_code, outcome, phases, summary>>

vars == <<llm_provider, tool_provider, llm_last, tool_last, hist, pc, config_file, bench, config,
          fault_config, results, run_results, scenario_idx, step, started_at,
          clock, exit_code, outcome, phases, summary>>

\* ------------------------------------------------- fault-pattern evaluator
\* variant: the sample is taken from (0, 1] instead of [0, 1)
SampleBelow_UpperInclusive(sample, rate) == (sample + 1) * RateDen < rate * SampleDen

\* random.random() < failure_rate, sample k/SampleDen against rate n/RateDen
SampleBelow(sample, rate) == sample * RateDen < rate * SampleDen

\* period = int(1.0 / failure_rate), for 0 < rate < 1
Period(rate) == RateDen \div rate

\* variant: the calls are counted from 0
PeriodicFails_ZeroBased(p) ==
  IF p.failure_rate >= RateDen THEN TRUE
  ELSE ((p.call_count - 1) % Period(p.failure_rate)) = 0

PeriodicFails(p) ==
  IF p.failure_rate >= RateDen THEN TRUE
  ELSE (p.call_count % Period(p.failure_rate)) = 0

\* variant: the burst is left one call early
BurstContinue_ExitsEarly(p) ==
  LET rem == p.burst_state.burst_remaining - 1 IN
  [p EXCEPT !.burst_state =
     [in_burst |-> IF rem <= 1 THEN FALSE ELSE p.burst_state.in_burst,
      burst_remaining |-> rem]]

\* variant: the burst flag is not cleared when the burst has run out
BurstContinue_NeverLeaves(p) ==
  LET rem == p.burst_state.burst_remaining - 1 IN
  [p EXCEPT !.burst_state =
     [in_burst |-> p.burst_state.in_burst, burst_remaining |-> rem]]

\* the in-burst branch: decrement, leave the burst at <= 0, fail this call
BurstContinue(p) ==
  LET rem == p.burst_state.burst_remaining - 1 IN
  [p EXCEPT !.burst_state =
     [in_burst |-> IF rem <= 0 THEN FALSE ELSE p.burst_state.in_burst,
      burst_remaining |-> rem]]

\* the burst is entered: in_burst, burst_remaining = randint(2, 4)
BurstEnter(p, burst_len) ==
  [p EXCEPT !.burst_state = [in_burst |-> TRUE, burst_remaining |-> burst_len],
            !.rng_pos = @ + 2]

\* variant: no shortcut for failure_rate 0.0
ShouldFail_NoShortCircuit(p, sample, burst_len) ==
  IF p.failure_pattern = "random"
    THEN [fail |-> SampleBelow(sample, p.failure_rate),
          p |-> [p EXCEPT !.rng_pos = @ + 1]]
  ELSE IF p.failure_pattern = "periodic"
    THEN [fail |-> p.failure_rate > 0 /\ PeriodicFails(p), p |-> p]
  ELSE IF p.burst_state.in_burst
    THEN [fail |-> TRUE, p |-> BurstContinue(p)]
  ELSE IF SampleBelow(sample, p.failure_rate)
    THEN [fail |-> TRUE, p |-> BurstEnter(p, burst_len)]
  ELSE [fail |-> FALSE, p |-> [p EXCEPT !.rng_pos = @ + 1]]

\* _should_fail: the verdict and the provider after the evaluation
ShouldFail(p, sample, burst_len) ==
  IF p.failure_rate = 0 THEN [fail |-> FALSE, p |-> p]
  ELSE IF p.failure_pattern = "random"
    THEN [fail |-> SampleBelow(sample, p.failure_rate),
          p |-> [p EXCEPT !.rng_pos = @ + 1]]
  ELSE IF p.failure_pattern = "periodic"
    THEN [fail |-> PeriodicFails(p), p |-> p]
  ELSE IF p.failure_pattern = "burst"
    THEN IF p.burst_state.in_burst
           THEN [fail |-> TRUE, p |-> BurstContinue(p)]
           ELSE IF SampleBelow(sample, p.failure_rate)
                  THEN [fail |-> TRUE, p |-> BurstEnter(p, burst_len)]
                  ELSE [fail |-> FALSE, p |-> [p EXCEPT !.rng_pos = @ + 1]]
  ELSE [fail |-> FALSE, p |-> p]

\* the draws a call can consume from the provider's random stream: a sample
\* of random() under the random pattern and outside a burst, and a burst
\* length of randint(2, 4) where a burst can start; a call that draws nothing
\* has the one input 0
DrawsSample(p) ==
  /\ p.kind # "real_tool"
  /\ p.failure_rate # 0
  /\ \/ p.failure_pattern = "random"
     \/ p.failure_pattern = "burst" /\ ~p.burst_state.in_burst

SampleInputs(p) == IF DrawsSample(p) THEN Samples ELSE {0}

BurstInputs(p) ==
  IF DrawsSample(p) /\ p.failure_pattern = "burst" THEN BurstDraws ELSE {2}

\* ------------------------------------------------------- MockToolProvider
NewMockToolProvider(failure_rate, latency_ms, failure_pattern, completeness_ratio) ==
  [kind |-> "mock_tool",
   failure_rate |-> failure_rate,
   latency_ms |-> latency_ms,
   failure_pattern |-> failure_pattern,
   completeness_ratio |-> completeness_ratio,
   call_count |-> 0,
   burst_state |-> [in_burst |-> FALSE, burst_remaining |-> 0],
   rng_pos |-> 0,
   slept_ms |-> 0]

\* int(len(value) * completeness_ratio)
TruncateAt(len, ratio) == (len * ratio) \div RateDen

\* _truncate_response on a result whose strings are held by their lengths
TruncateResponse(p, result) ==
  IF p.completeness_ratio >= RateDen THEN result
  ELSE [k \in DOMAIN result |-> TruncateAt(result[k], p.completeness_ratio)]

NoResult == [location |-> 0]

\* variant: an unknown tool name gets an empty payload
MockToolExecute_EmptyForUnknown(p, tool_name, arg_len, sample, burst_len) ==
  LET counted == [p EXCEPT !.call_count = @ + 1]
      slept == [counted EXCEPT !.slept_ms = @ + p.latency_ms]
      sf == ShouldFail(slept, sample, burst_len)
  IN IF sf.fail
       THEN [status |-> "MockToolFailure", result |-> NoResult, provider |-> sf.p]
     ELSE IF tool_name = "get_weather"
       THEN [status |-> "ok",
             result |-> TruncateResponse(sf.p,
                [location |-> IF arg_len = None THEN 7 ELSE arg_len,
                 temperature |-> 4, condition |-> 5, humidity |-> 3, wind_speed |-> 5]),
             provider |-> sf.p]
     ELSE IF tool_name = "search"
       THEN [status |-> "ok",
             result |-> TruncateResponse(sf.p,
                [title1 |-> 13 + (IF arg_len = None THEN 0 ELSE arg_len), url1 |-> 21,
                 title2 |-> 13 + (IF arg_len = None THEN 0 ELSE arg_len), url2 |-> 21]),
             provider |-> sf.p]
     ELSE [status |-> "ok", result |-> TruncateResponse(sf.p, [results |-> 0]),
           provider |-> sf.p]

\* variant: a call failed by the pattern returns before the delay
MockToolExecute_FailsBeforeSleep(p, tool_name, arg_len, sample, burst_len) ==
  LET counted == [p EXCEPT !.call_count = @ + 1]
      early == ShouldFail(counted, sample, burst_len)
      sf == [fail |-> early.fail, p |-> [early.p EXCEPT !.slept_ms = @ + p.latency_ms]]
  IN IF early.fail
       THEN [status |-> "MockToolFailure", result |-> NoResult, provider |-> early.p]
     ELSE IF tool_name = "get_weather"
       THEN [status |-> "ok",
             result |-> TruncateResponse(sf.p,
                [location |-> IF arg_len = None THEN 7 ELSE arg_len,
                 temperature |-> 4, condition |-> 5, humidity |-> 3, wind_speed |-> 5]),
             provider |-> sf.p]
     ELSE IF tool_name = "search"
       THEN [status |-> "ok",
             result |-> TruncateResponse(sf.p,
                [title1 |-> 13 + (IF arg_len = None THEN 0 ELSE arg_len), url1 |-> 21,
                 title2 |-> 13 + (IF arg_len = None THEN 0 ELSE arg_len), url2 |-> 21]),
             provider |-> sf.p]
     ELSE [status |-> "UnknownTool", result |-> NoResult, provider |-> sf.p]

\* execute: what the call returns or raises, and the provider afterwards
MockToolExecute(p, tool_name, arg_len, sample, burst_len) ==
  LET counted == [p EXCEPT !.call_count = @ + 1]
      slept == [counted EXCEPT !.slept_ms = @ + p.latency_ms]
      sf == ShouldFail(slept, sample, burst_len)
  IN IF sf.fail
       THEN [status |-> "MockToolFailure", result |-> NoResult, provider |-> sf.p]
     ELSE IF tool_name = "get_weather"
       THEN [status |-> "ok",
             result |-> TruncateResponse(sf.p,
                [location |-> IF arg_len = None THEN 7 ELSE arg_len,
                 temperature |-> 4, condition |-> 5, humidity |-> 3, wind_speed |-> 5]),
             provider |-> sf.p]
     ELSE IF tool_name = "search"
       THEN [status |-> "ok",
             result |-> TruncateResponse(sf.p,
                [title1 |-> 13 + (IF arg_len = None THEN 0 ELSE arg_len), url1 |-> 21,
                 title2 |-> 13 + (IF arg_len = None THEN 0 ELSE arg_len), url2 |-> 21]),
             provider |-> sf.p]
     ELSE [status |-> "UnknownTool", result |-> NoResult, provider |-> sf.p]

\* -------------------------------------------------------- MockLLMProvider
NewMockLLMProvider(latency_ms, failure_rate, failure_pattern, rate_limit_after, max_tokens, completeness_ratio) ==
  [kind |-> "mock_llm",
   latency_ms |-> latency_ms,
   failure_rate |-> failure_rate,
   failure_pattern |-> failure_pattern,
   rate_limit_after |-> rate_limit_after,
   max_tokens |-> max_tokens,
   completeness_ratio |-> completeness_ratio,
   call_count |-> 0,
   burst_state |-> [in_burst |-> FALSE, burst_remaining |-> 0],
   rng_pos |-> 0,
   slept_ms |-> 0]

Max(a, b) == IF a >= b THEN a ELSE b

\* len("This is a mock response for testing purposes.")
CannedTextLen == 45

ToolCallCompletionTokens == 25

\* the response dictionary, by the fields the callers read
LLMResponse(status, kind, prompt_tokens, completion_tokens, text_len) ==
  [status |-> status, kind |-> kind,
   prompt_tokens |-> prompt_tokens,
   completion_tokens |-> completion_tokens,
   total_tokens |-> prompt_tokens + completion_tokens,
   text_len |-> text_len]

LLMRaised(status) == LLMResponse(status, "none", 0, 0, 0)

\* variant: the token limit is checked on the size of the untruncated text
LLMGenerate_LimitBeforeTruncation(p, message, tools) ==
  LET prompt_tokens == Max(1, message.len \div 4) IN
  IF tools /\ message.keyword
    THEN LET total == prompt_tokens + ToolCallCompletionTokens IN
         IF p.max_tokens # None /\ total > p.max_tokens
           THEN LLMResponse("TokenLimitError", "none", prompt_tokens,
                            ToolCallCompletionTokens, 0)
           ELSE LLMResponse("ok", "tool_calls", prompt_tokens,
                            ToolCallCompletionTokens, 0)
    ELSE LET text_len == IF p.completeness_ratio < RateDen
                           THEN TruncateAt(CannedTextLen, p.completeness_ratio)
                           ELSE CannedTextLen
             completion_tokens == Max(1, text_len \div 4)
         IN IF p.max_tokens # None
               /\ prompt_tokens + Max(1, CannedTextLen \div 4) > p.max_tokens
              THEN LLMResponse("TokenLimitError", "none", prompt_tokens,
                               completion_tokens, text_len)
              ELSE LLMResponse("ok", "text", prompt_tokens, completion_tokens, text_len)

\* variant: an empty text counts no completion tokens
LLMGenerate_NoClamp(p, message, tools) ==
  LET prompt_tokens == Max(1, message.len \div 4) IN
  IF tools /\ message.keyword
    THEN LET total == prompt_tokens + ToolCallCompletionTokens IN
         IF p.max_tokens # None /\ total > p.max_tokens
           THEN [LLMResponse("TokenLimitError", "none", prompt_tokens,
                             ToolCallCompletionTokens, 0) EXCEPT !.kind = "none"]
           ELSE LLMResponse("ok", "tool_calls", prompt_tokens,
                            ToolCallCompletionTokens, 0)
    ELSE LET text_len == IF p.completeness_ratio < RateDen
                           THEN TruncateAt(CannedTextLen, p.completeness_ratio)
                           ELSE CannedTextLen
             completion_tokens == text_len \div 4
             total == prompt_tokens + completion_tokens
         IN IF p.max_tokens # None /\ total > p.max_tokens
              THEN LLMResponse("TokenLimitError", "none", prompt_tokens,
                               completion_tokens, text_len)
              ELSE LLMResponse("ok", "text", prompt_tokens, completion_tokens, text_len)

\* the generation part of call: token count, tool-call or text path, token limit.
\* message = [len: characters of the joined prompt, keyword: the lowercased
\* last message contains "weather" or "temperature"]
LLMGenerate(p, message, tools) ==
  LET prompt_tokens == Max(1, message.len \div 4) IN
  IF tools /\ message.keyword
    THEN LET total == prompt_tokens + ToolCallCompletionTokens IN
         IF p.max_tokens # None /\ total > p.max_tokens
           THEN [LLMResponse("TokenLimitError", "none", prompt_tokens,
                             ToolCallCompletionTokens, 0) EXCEPT !.kind = "none"]
           ELSE LLMResponse("ok", "tool_calls", prompt_tokens,
                            ToolCallCompletionTokens, 0)
    ELSE LET text_len == IF p.completeness_ratio < RateDen
                           THEN TruncateAt(CannedTextLen, p.completeness_ratio)
                           ELSE CannedTextLen
             completion_tokens == Max(1, text_len \div 4)
             total == prompt_tokens + completion_tokens
         IN IF p.max_tokens # None /\ total > p.max_tokens
              THEN LLMResponse("TokenLimitError", "none", prompt_tokens,
                               completion_tokens, text_len)
              ELSE LLMResponse("ok", "text", prompt_tokens, completion_tokens, text_len)

\* variant: the rate limit is checked after the fault pattern and the delay
MockLLMCall_LimitAfterPattern(p, message, tools, sample, burst_len) ==
  LET counted == [p EXCEPT !.call_count = @ + 1]
      sf == ShouldFail(counted, sample, burst_len)
      slept == [sf.p EXCEPT !.slept_ms = @ + p.latency_ms]
  IN IF sf.fail
       THEN [response |-> LLMRaised("MockLLMFailure"), provider |-> sf.p]
     ELSE IF counted.rate_limit_after # None /\ counted.call_count > counted.rate_limit_after
       THEN [response |-> LLMRaised("RateLimitError"), provider |-> slept]
     ELSE [response |-> LLMGenerate(slept, message, tools), provider |-> slept]

\* variant: a call refused by the rate limit is not counted
MockLLMCall_RefusedUncounted(p, message, tools, sample, burst_len) ==
  LET counted == [p EXCEPT !.call_count = @ + 1] IN
  IF counted.rate_limit_after # None /\ counted.call_count > counted.rate_limit_after
    THEN [response |-> LLMRaised("RateLimitError"), provider |-> p]
    ELSE LET sf == ShouldFail(counted, sample, burst_len) IN
         IF sf.fail
           THEN [response |-> LLMRaised("MockLLMFailure"), provider |-> sf.p]
           ELSE LET slept == [sf.p EXCEPT !.slept_ms = @ + p.latency_ms] IN
                [response |-> LLMGenerate(slept, message, tools), provider |-> slept]

\* call: what the call returns or raises, and the provider afterwards
MockLLMCall(p, message, tools, sample, burst_len) ==
  LET counted == [p EXCEPT !.call_count = @ + 1] IN
  IF counted.rate_limit_after # None /\ counted.call_count > counted.rate_limit_after
    THEN [response |-> LLMRaised("RateLimitError"), provider |-> counted]
    ELSE LET sf == ShouldFail(counted, sample, burst_len) IN
         IF sf.fail
           THEN [response |-> LLMRaised("MockLLMFailure"), provider |-> sf.p]
           ELSE LET slept == [sf.p EXCEPT !.slept_ms = @ + p.latency_ms] IN
                [response |-> LLMGenerate(slept, message, tools), provider |-> slept]

\* ------------------------------------------- RealLLMProvider, RealToolProvider
\* RealLLMProvider holds a MockLLMProvider(latency_ms=500) and delegates to it
NewRealLLMProvider ==
  [NewMockLLMProvider(500, 0, "random", None, None, RateDen) EXCEPT !.kind = "real_llm"]

RealLLMCall(p, message, tools, sample, burst_len) ==
  MockLLMCall(p, message, tools, sample, burst_len)

NewRealToolProvider == [kind |-> "real_tool"]

RealToolExecute(p, tool_name, arg_len) ==
  IF tool_name = "get_weather"
    THEN IF arg_len = None \/ arg_len = 0
           THEN [status |-> "MissingArgument", result |-> NoResult, provider |-> p]
           ELSE [status |-> "ok",
                 result |-> [location |-> arg_len, temperature |-> 4, condition |-> 13,
                             humidity |-> 3, wind_speed |-> 6],
                 provider |-> p]
    ELSE [status |-> "UnknownTool", result |-> NoResult, provider |-> p]

\* ------------------------------------------------------ FaultInjectionConfig
FaultProfile(name, parameters) == [name |-> name, parameters |-> parameters]

FaultInjectionConfig(enabled, profiles) ==
  [is_none |-> FALSE, enabled |-> enabled, profiles |-> profiles]

\* fault_config = None
NoFaultConfig == [is_none |-> TRUE, enabled |-> FALSE, profiles |-> <<>>]

NoProfile == [name |-> "", parameters |-> <<>>]

ProfileIndexes(fc, name) == {i \in 1..Len(fc.profiles) : fc.profiles[i].name = name}

\* variant: the last profile of that name is returned
get_profile_LastMatch(fc, name) ==
  IF ProfileIndexes(fc, name) = {} THEN NoProfile
  ELSE fc.profiles[CHOOSE i \in ProfileIndexes(fc, name) :
                      \A j \in ProfileIndexes(fc, name) : i >= j]

\* get_profile: the first profile of that name, or None
get_profile(fc, name) ==
  IF ProfileIndexes(fc, name) = {} THEN NoProfile
  ELSE fc.profiles[CHOOSE i \in ProfileIndexes(fc, name) :
                      \A j \in ProfileIndexes(fc, name) : i <= j]

is_profile_enabled(fc, name) == \E i \in 1..Len(fc.profiles) : fc.profiles[i].name = name

get_parameter(fc, profile_name, param_name, default) ==
  LET profile == get_profile(fc, profile_name) IN
  IF ProfileIndexes(fc, profile_name) # {}
    THEN IF param_name \in DOMAIN profile.parameters
           THEN profile.parameters[param_name]
           ELSE default
    ELSE default

\* ------------------------------------------------------------ AgentFactory
DefaultLLMLatency == 500

DefaultToolLatency == 200

NewAgent(llm, tool) == [llm_provider |-> llm, tool_provider |-> tool]

\* create_mock_agent(llm_latency_ms, tool_latency_ms, tool_failure_rate)
create_mock_agent(llm_latency_ms, tool_latency_ms, tool_failure_rate) ==
  NewAgent(NewMockLLMProvider(llm_latency_ms, 0, "random", None, None, RateDen),
           NewMockToolProvider(tool_failure_rate, tool_latency_ms, "random", RateDen))

create_real_agent == NewAgent(NewRealLLMProvider, NewRealToolProvider)

\* variant: the profiles of a disabled fault configuration are applied
MockSettings_IgnoresEnabled(cfg, fc) ==
  LET on == ~fc.is_none
      base_tool_rate == IF cfg.tool_failure_rate = None THEN 0 ELSE cfg.tool_failure_rate
      hl == on /\ is_profile_enabled(fc, "high_latency")
      fl == on /\ is_profile_enabled(fc, "intermittent_failures")
      rl == on /\ is_profile_enabled(fc, "rate_limits")
      tl == on /\ is_profile_enabled(fc, "token_limits")
      pr == on /\ is_profile_enabled(fc, "partial_responses")
  IN [llm_latency |-> IF hl THEN get_parameter(fc, "high_latency", "llm_latency_ms",
                                               DefaultLLMLatency)
                      ELSE DefaultLLMLatency,
      tool_latency |-> IF hl THEN get_parameter(fc, "high_latency", "tool_latency_ms",
                                                DefaultToolLatency)
                       ELSE DefaultToolLatency,
      llm_failure_rate |-> IF fl THEN get_parameter(fc, "intermittent_failures",
                                                    "llm_failure_rate", 0)
                           ELSE 0,
      tool_failure_rate |-> IF fl THEN get_parameter(fc, "intermittent_failures",
                                                     "tool_failure_rate", base_tool_rate)
                            ELSE base_tool_rate,
      failure_pattern |-> IF fl THEN get_parameter(fc, "intermittent_failures",
                                                   "failure_pattern", "random")
                          ELSE "random",
      rate_limit_after |-> IF rl THEN get_parameter(fc, "rate_limits",
                                                    "trigger_after_calls", None)
                           ELSE None,
      max_tokens |-> IF tl THEN get_parameter(fc, "token_limits", "max_tokens", None)
                     ELSE None,
      completeness_ratio |-> IF pr THEN get_parameter(fc, "partial_responses",
                                                      "completeness_ratio", RateDen)
                             ELSE RateDen]

\* variant: the profile blocks are alternatives, only the first enabled one applies
MockSettings_FirstBlockOnly(cfg, fc) ==
  LET on == ~fc.is_none /\ fc.enabled
      base_tool_rate == IF cfg.tool_failure_rate = None THEN 0 ELSE cfg.tool_failure_rate
      hl == on /\ is_profile_enabled(fc, "high_latency")
      fl == on /\ ~hl /\ is_profile_enabled(fc, "intermittent_failures")
      rl == on /\ ~hl /\ ~fl /\ is_profile_enabled(fc, "rate_limits")
      tl == on /\ ~hl /\ ~fl /\ ~rl /\ is_profile_enabled(fc, "token_limits")
      pr == on /\ ~hl /\ ~fl /\ ~rl /\ ~tl /\ is_profile_enabled(fc, "partial_responses")
  IN [llm_latency |-> IF hl THEN get_parameter(fc, "high_latency", "llm_latency_ms",
                                               DefaultLLMLatency)
                      ELSE DefaultLLMLatency,
      tool_latency |-> IF hl THEN get_parameter(fc, "high_latency", "tool_latency_ms",
                                                DefaultToolLatency)
                       ELSE DefaultToolLatency,
      llm_failure_rate |-> IF fl THEN get_parameter(fc, "intermittent_failures",
                                                    "llm_failure_rate", 0)
                           ELSE 0,
      tool_failure_rate |-> IF fl THEN get_parameter(fc, "intermittent_failures",
                                                     "tool_failure_rate", base_tool_rate)
                            ELSE base_tool_rate,
      failure_pattern |-> IF fl THEN get_parameter(fc, "intermittent_failures",
                                                   "failure_pattern", "random")
                          ELSE "random",
      rate_limit_after |-> IF rl THEN get_parameter(fc, "rate_limits",
                                                    "trigger_after_calls", None)
                           ELSE None,
      max_tokens |-> IF tl THEN get_parameter(fc, "token_limits", "max_tokens", None)
                     ELSE None,
      completeness_ratio |-> IF pr THEN get_parameter(fc, "partial_responses",
                                                      "completeness_ratio", RateDen)
                             ELSE RateDen]

\* the settings create_from_config passes to the mock providers
MockSettings(cfg, fc) ==
  LET on == ~fc.is_none /\ fc.enabled
      base_tool_rate == IF cfg.tool_failure_rate = None THEN 0 ELSE cfg.tool_failure_rate
      hl == on /\ is_profile_enabled(fc, "high_latency")
      fl == on /\ is_profile_enabled(fc, "intermittent_failures")
      rl == on /\ is_profile_enabled(fc, "rate_limits")
      tl == on /\ is_profile_enabled(fc, "token_limits")
      pr == on /\ is_profile_enabled(fc, "partial_responses")
  IN [llm_latency |-> IF hl THEN get_parameter(fc, "high_latency", "llm_latency_ms",
                                               DefaultLLMLatency)
                      ELSE DefaultLLMLatency,
      tool_latency |-> IF hl THEN get_parameter(fc, "high_latency", "tool_latency_ms",
                                                DefaultToolLatency)
                       ELSE DefaultToolLatency,
      llm_failure_rate |-> IF fl THEN get_parameter(fc, "intermittent_failures",
                                                    "llm_failure_rate", 0)
                           ELSE 0,
      tool_failure_rate |-> IF fl THEN get_parameter(fc, "intermittent_failures",
                                                     "tool_failure_rate", base_tool_rate)
                            ELSE base_tool_rate,
      failure_pattern |-> IF fl THEN get_parameter(fc, "intermittent_failures",
                                                   "failure_pattern", "random")
                          ELSE "random",
      rate_limit_after |-> IF rl THEN get_parameter(fc, "rate_limits",
                                                    "trigger_after_calls", None)
                           ELSE None,
      max_tokens |-> IF tl THEN get_parameter(fc, "token_limits", "max_tokens", None)
                     ELSE None,
      completeness_ratio |-> IF pr THEN get_parameter(fc, "partial_responses",
                                                      "completeness_ratio", RateDen)
                             ELSE RateDen]

\* create_from_config raises ValueError: unknown mode
CreateRaises(cfg) == cfg.mode \notin {"mock", "real"}

\* variant: the fault profiles reach the LLM provider in real mode too
create_from_config_FaultsInRealMode(cfg, fc) ==
  LET m == MockSettings(cfg, fc)
      llm == NewMockLLMProvider(m.llm_latency, m.llm_failure_rate, m.failure_pattern,
                                m.rate_limit_after, m.max_tokens, m.completeness_ratio)
  IN IF cfg.mode = "mock"
       THEN NewAgent(llm, NewMockToolProvider(m.tool_failure_rate, m.tool_latency,
                                              m.failure_pattern, m.completeness_ratio))
       ELSE NewAgent([llm EXCEPT !.kind = "real_llm"], NewRealToolProvider)

\* create_from_config, where it does not raise
create_from_config(cfg, fc) ==
  IF cfg.mode = "mock"
    THEN LET m == MockSettings(cfg, fc) IN
         NewAgent(NewMockLLMProvider(m.llm_latency, m.llm_failure_rate, m.failure_pattern,
                                     m.rate_limit_after, m.max_tokens,
                                     m.completeness_ratio),
                  NewMockToolProvider(m.tool_failure_rate, m.tool_latency,
                                      m.failure_pattern, m.completeness_ratio))
    ELSE create_real_agent

\* ------------------------------------------------------- ConfigurableAgent
LLMProviderCall(p, message, tools, sample, burst_len) ==
  IF p.kind = "real_llm" THEN RealLLMCall(p, message, tools, sample, burst_len)
  ELSE MockLLMCall(p, message, tools, sample, burst_len)

ToolProviderExecute(p, tool_name, arg_len, sample, burst_len) ==
  IF p.kind = "real_tool" THEN RealToolExecute(p, tool_name, arg_len)
  ELSE MockToolExecute(p, tool_name, arg_len, sample, burst_len)

\* len("Paris"), the location of the synthetic tool call
ParisLen == 5

\* variant: a failed LLM call is tried once more
AgentInvoke_RetriesLLM(agent, message, ls, lb, ts, tb) ==
  LET first == LLMProviderCall(agent.llm_provider, message, TRUE, ls, lb)
      retried == first.response.status # "ok"
      lc == IF retried THEN LLMProviderCall(first.provider, message, TRUE, ls, lb)
            ELSE first
      n == IF retried THEN 2 ELSE 1
  IN IF lc.response.status # "ok"
       THEN [status |-> lc.response.status, llm_calls |-> n, tool_calls |-> 0,
             agent |-> [agent EXCEPT !.llm_provider = lc.provider]]
     ELSE IF lc.response.kind = "tool_calls"
       THEN LET te == ToolProviderExecute(agent.tool_provider, "get_weather", ParisLen,
                                          ts, tb)
            IN [status |-> te.status, llm_calls |-> n, tool_calls |-> 1,
                agent |-> [llm_provider |-> lc.provider, tool_provider |-> te.provider]]
     ELSE [status |-> "ok", llm_calls |-> n, tool_calls |-> 0,
           agent |-> [agent EXCEPT !.llm_provider = lc.provider]]

\* invoke: one LLM call, then the first tool call of the response if there is one.
\* status is "ok" or the exception that propagates.
AgentInvoke(agent, message, ls, lb, ts, tb) ==
  LET lc == LLMProviderCall(agent.llm_provider, message, TRUE, ls, lb) IN
  IF lc.response.status # "ok"
    THEN [status |-> lc.response.status, llm_calls |-> 1, tool_calls |-> 0,
          agent |-> [agent EXCEPT !.llm_provider = lc.provider]]
  ELSE IF lc.response.kind = "tool_calls"
    THEN LET te == ToolProviderExecute(agent.tool_provider, "get_weather", ParisLen, ts, tb)
         IN [status |-> te.status, llm_calls |-> 1, tool_calls |-> 1,
             agent |-> [llm_provider |-> lc.provider, tool_provider |-> te.provider]]
  ELSE [status |-> "ok", llm_calls |-> 1, tool_calls |-> 0,
        agent |-> [agent EXCEPT !.llm_provider = lc.provider]]

\* variant: a missing child name falls back to the agent's own invoke
invoke_child_agent_FallsBack(agent, child_name, message, ls, lb, ts, tb) ==
  LET r == AgentInvoke(IF child_name \in DOMAIN agent.child_agents
                         THEN agent.child_agents[child_name] ELSE agent,
                       message, ls, lb, ts, tb)
  IN [status |-> r.status, available |-> {},
      agent |-> IF child_name \in DOMAIN agent.child_agents
                  THEN [agent EXCEPT !.child_agents[child_name] = r.agent]
                  ELSE [agent EXCEPT !.llm_provider = r.agent.llm_provider,
                                     !.tool_provider = r.agent.tool_provider]]

\* invoke_child_agent: ChildAgentNotFoundError with the names available, or
\* the child's invoke; agent.child_agents maps names to agents
invoke_child_agent(agent, child_name, message, ls, lb, ts, tb) ==
  IF child_name \notin DOMAIN agent.child_agents
    THEN [status |-> "ChildAgentNotFoundError",
          available |-> DOMAIN agent.child_agents, agent |-> agent]
    ELSE LET r == AgentInvoke(agent.child_agents[child_name], message, ls, lb, ts, tb)
         IN [status |-> r.status, available |-> {},
             agent |-> [agent EXCEPT !.child_agents[child_name] = r.agent]]

\* ms slept by the providers of an agent so far
Slept(agent) ==
  agent.llm_provider.slept_ms +
  (IF agent.tool_provider.kind = "real_tool" THEN 0 ELSE agent.tool_provider.slept_ms)

\* str(e) of the exceptions an invoke can raise, as words
ExceptionText(status) ==
  IF status = "MockToolFailure" THEN <<"Mock", "tool", "failure", "(pattern:">>
  ELSE IF status = "MockLLMFailure" THEN <<"Mock", "LLM", "failure", "(pattern:">>
  ELSE IF status = "RateLimitError" THEN <<"Rate", "limit", "exceeded", "after">>
  ELSE IF status = "TokenLimitError" THEN <<"Token", "limit", "exceeded:">>
  ELSE IF status = "UnknownTool" THEN <<"Unknown", "tool:">>
  ELSE IF status = "MissingArgument" THEN <<"Missing", "required", "argument:", "location">>
  ELSE <<"unexpected", "error">>

\* pat in text
Contains(text, pat) ==
  \E i \in 0..(Len(text) - Len(pat)) : \A j \in 1..Len(pat) : text[i + j] = pat[j]

\* ---------------------------------------------------------------- scenarios
Registry == {"simple_tool_call", "multi_tool_chain", "tool_failure",
             "high_token_usage", "conversation_context", "multi_agent"}

\* the prompts of the scenario scripts: characters of the system prompt joined
\* with the user message, and whether the user message names the weather
MsgParis == [len |-> 65, keyword |-> TRUE]

MsgLondon == [len |-> 66, keyword |-> TRUE]

MsgTokyo == [len |-> 65, keyword |-> TRUE]

MsgAboutLondon == [len |-> 55, keyword |-> FALSE]

MsgAndTokyo == [len |-> 57, keyword |-> FALSE]

MsgLarge == [len |-> 2278, keyword |-> TRUE]

MsgCoordinate == [len |-> 64, keyword |-> FALSE]

MsgSubtask == [len |-> 52, keyword |-> FALSE]

Call(who, message) == [agent |-> who, message |-> message]

\* the agent.invoke calls of each scenario's execute, in order
Script(name) ==
  IF name = "simple_tool_call" THEN <<Call("root", MsgParis)>>
  ELSE IF name = "multi_tool_chain"
    THEN <<Call("root", MsgParis), Call("root", MsgLondon), Call("root", MsgTokyo)>>
  ELSE IF name = "tool_failure" THEN <<Call("root", MsgParis)>>
  ELSE IF name = "high_token_usage" THEN <<Call("root", MsgLarge)>>
  ELSE IF name = "conversation_context"
    THEN <<Call("root", MsgParis), Call("root", MsgAboutLondon), Call("root", MsgAndTokyo)>>
  ELSE <<Call("root", MsgCoordinate), Call("child", MsgSubtask)>>

\* the child agent MultiAgentScenario builds for itself
ScenarioChildAgent == create_mock_agent(100, 50, 0)

\* the fields of the ScenarioResult dataclass
ScenarioResultFields ==
  {"scenario_name", "success", "duration_seconds", "error_message", "conversation_id"}

\* a ScenarioResult; fault_attrs: the runner has set fault_injection_enabled
\* and active_fault_profiles on the instance
ScenarioResult(scenario_name, success, duration_seconds, error_message, conversation_id) ==
  [scenario_name |-> scenario_name, success |-> success,
   duration_seconds |-> duration_seconds, error_message |-> error_message,
   conversation_id |-> conversation_id, fault_attrs |-> FALSE]

\* variant: every exception makes the scenario fail
ClassifyException_AlwaysFailure(name, status, duration) ==
  ScenarioResult(name, FALSE, duration, ExceptionText(status), name)

\* variant: a tool failure is taken for a success in every scenario
ClassifyException_AnyScenario(name, status, duration) ==
  IF \/ Contains(ExceptionText(status), <<"Mock", "tool", "failure">>)
     \/ Contains(ExceptionText(status), <<"Tool", "execution", "failed">>)
    THEN ScenarioResult(name, TRUE, duration,
                        <<"Expected", "tool", "failure:">> \o ExceptionText(status), name)
    ELSE ScenarioResult(name, FALSE, duration, ExceptionText(status), name)

\* the except branch of a scenario's execute: only ToolFailureScenario takes a
\* tool failure for a success
ClassifyException(name, status, duration) ==
  IF name = "tool_failure"
     /\ (\/ Contains(ExceptionText(status), <<"Mock", "tool", "failure">>)
         \/ Contains(ExceptionText(status), <<"Tool", "execution", "failed">>))
    THEN ScenarioResult(name, TRUE, duration,
                        <<"Expected", "tool", "failure:">> \o ExceptionText(status), name)
    ELSE ScenarioResult(name, FALSE, duration, ExceptionText(status), name)

\* ------------------------------------------------------------ configuration
\* the names a scenarios list is drawn from: the registry and one name outside it
ScenarioNames == Registry \cup {"load_test"}

ScenarioLists == UNION {[1..n -> ScenarioNames] : n \in 0..MaxScenarios}

\* fault_injection sections of the configuration file
SectionAbsent == [present |-> FALSE, enabled |-> FALSE, profiles |-> <<>>, blocks |-> <<>>]

SectionDisabled ==
  [present |-> TRUE, enabled |-> FALSE, profiles |-> <<"rate_limits">>,
   blocks |-> [rate_limits |-> [trigger_after_calls |-> 1]]]

SectionFailures ==
  [present |-> TRUE, enabled |-> TRUE, profiles |-> <<"intermittent_failures">>,
   blocks |-> [intermittent_failures |->
                 [llm_failure_rate |-> 0, tool_failure_rate |-> 2,
                  failure_pattern |-> "burst"]]]

SectionRateLimits ==
  [present |-> TRUE, enabled |-> TRUE, profiles |-> <<"rate_limits", "custom">>,
   blocks |-> [rate_limits |-> [trigger_after_calls |-> 2], custom |-> <<>>]]

SectionTokenLimits ==
  [present |-> TRUE, enabled |-> TRUE, profiles |-> <<"token_limits">>,
   blocks |-> [token_limits |-> [max_tokens |-> 100]]]

SectionUndefinedProfile ==
  [present |-> TRUE, enabled |-> TRUE, profiles |-> <<"rate_limits">>, blocks |-> <<>>]

FaultSections == {SectionAbsent, SectionDisabled, SectionFailures, SectionRateLimits,
                  SectionTokenLimits, SectionUndefinedProfile}

\* the configuration files a run may be given
ConfigFiles ==
  [mode : {"mock", "real", "batch"},
   scenarios : ScenarioLists,
   tool_failure_rate : {None, RateDen},
   validation : {"absent", "enabled", "disabled"},
   fault_injection : FaultSections]

\* self.config = {}
NoConfig ==
  [mode |-> "", scenarios |-> <<>>, tool_failure_rate |-> None,
   validation |-> "absent", fault_injection |-> SectionAbsent]

\* _validate_config passes
ValidConfig(doc) ==
  /\ doc.mode \in {"mock", "real"}
  /\ Len(doc.scenarios) # 0
  /\ (doc.mode = "mock" /\ doc.tool_failure_rate # None)
        => (0 <= doc.tool_failure_rate /\ doc.tool_failure_rate <= RateDen)

Has(parameters, key) == key \in DOMAIN parameters

\* variant: rates and ratios are checked from below only
ValidProfileParameters_NoUpperBound(profile_name, parameters) ==
  IF profile_name = "high_latency"
    THEN /\ Has(parameters, "llm_latency_ms") => parameters["llm_latency_ms"] >= 0
         /\ Has(parameters, "tool_latency_ms") => parameters["tool_latency_ms"] >= 0
  ELSE IF profile_name = "intermittent_failures"
    THEN /\ Has(parameters, "llm_failure_rate")
              => 0 <= parameters["llm_failure_rate"]
         /\ Has(parameters, "tool_failure_rate")
              => 0 <= parameters["tool_failure_rate"]
         /\ Has(parameters, "failure_pattern")
              => parameters["failure_pattern"] \in Patterns
  ELSE IF profile_name = "rate_limits"
    THEN Has(parameters, "trigger_after_calls") => parameters["trigger_after_calls"] >= 1
  ELSE IF profile_name = "token_limits"
    THEN /\ Has(parameters, "max_tokens") => parameters["max_tokens"] >= 1
         /\ Has(parameters, "exceed_by") => parameters["exceed_by"] >= 0
  ELSE IF profile_name = "partial_responses"
    THEN Has(parameters, "completeness_ratio")
           => 0 <= parameters["completeness_ratio"]
  ELSE TRUE

\* _validate_profile_parameters passes
ValidProfileParameters(profile_name, parameters) ==
  IF profile_name = "high_latency"
    THEN /\ Has(parameters, "llm_latency_ms") => parameters["llm_latency_ms"] >= 0
         /\ Has(parameters, "tool_latency_ms") => parameters["tool_latency_ms"] >= 0
  ELSE IF profile_name = "intermittent_failures"
    THEN /\ Has(parameters, "llm_failure_rate")
              => (0 <= parameters["llm_failure_rate"]
                  /\ parameters["llm_failure_rate"] <= RateDen)
         /\ Has(parameters, "tool_failure_rate")
              => (0 <= parameters["tool_failure_rate"]
                  /\ parameters["tool_failure_rate"] <= RateDen)
         /\ Has(parameters, "failure_pattern")
              => parameters["failure_pattern"] \in Patterns
  ELSE IF profile_name = "rate_limits"
    THEN Has(parameters, "trigger_after_calls") => parameters["trigger_after_calls"] >= 1
  ELSE IF profile_name = "token_limits"
    THEN /\ Has(parameters, "max_tokens") => parameters["max_tokens"] >= 1
         /\ Has(parameters, "exceed_by") => parameters["exceed_by"] >= 0
  ELSE IF profile_name = "partial_responses"
    THEN Has(parameters, "completeness_ratio")
           => (0 <= parameters["completeness_ratio"]
               /\ parameters["completeness_ratio"] <= RateDen)
  ELSE TRUE

\* variant: a listed name with no block of its own is skipped
parse_fault_injection_config_SkipsUndefined(section) ==
  LET Defined(name) == name \in DOMAIN section.blocks
      listed == SelectSeq(section.profiles, Defined)
  IN IF ~section.present THEN [ok |-> TRUE, config |-> NoFaultConfig]
     ELSE IF ~section.enabled
       THEN [ok |-> TRUE, config |-> FaultInjectionConfig(FALSE, <<>>)]
     ELSE IF \A i \in 1..Len(listed) :
               ValidProfileParameters(listed[i], section.blocks[listed[i]])
       THEN [ok |-> TRUE,
             config |-> FaultInjectionConfig(TRUE,
                [i \in 1..Len(listed) |->
                   FaultProfile(listed[i], section.blocks[listed[i]])])]
     ELSE [ok |-> FALSE, config |-> NoFaultConfig]

\* parse_fault_injection_config: ok is FALSE where it raises ValueError
parse_fault_injection_config(section) ==
  IF ~section.present THEN [ok |-> TRUE, config |-> NoFaultConfig]
  ELSE IF ~section.enabled
    THEN [ok |-> TRUE, config |-> FaultInjectionConfig(FALSE, <<>>)]
  ELSE IF \A i \in 1..Len(section.profiles) :
            /\ section.profiles[i] \in DOMAIN section.blocks
            /\ ValidProfileParameters(section.profiles[i],
                                      section.blocks[section.profiles[i]])
    THEN [ok |-> TRUE,
          config |-> FaultInjectionConfig(TRUE,
             [i \in 1..Len(section.profiles) |->
                FaultProfile(section.profiles[i], section.blocks[section.profiles[i]])])]
  ELSE [ok |-> FALSE, config |-> NoFaultConfig]

\* ----------------------------------------------------------- history
\* the most recent execute: the tool asked for, its outcome and the result
\* returned, whether _should_fail was evaluated in a burst, and how many draws
\* it consumed
NoCall ==
  [status |-> "none", was_in_burst |-> FALSE, drew |-> 0, tool_name |-> "none",
   result |-> NoResult]

\* the most recent MockLLMProvider.call, with its arguments and what it
\* returned or raised
NoLLMCall ==
  [status |-> "none", was_in_burst |-> FALSE, drew |-> 0,
   message |-> [len |-> 0, keyword |-> FALSE], tools |-> FALSE,
   response |-> LLMRaised("none")]

\* llm_faults/tool_faults: pattern failures so far; forced: failures forced
\* by the current (or last) burst since the call that triggered it
NoHist == [tool_faults |-> 0, llm_faults |-> 0, forced |-> 0,
           invokes |-> 0, crashes |-> 0, skipped |-> 0, validation |-> "none",
           build_raised |-> FALSE, raised |-> "none", calls |-> 0,
           issued |-> [name |-> "none", calls |-> <<>>, raised |-> <<>>]]

\* no agent is on the bench
NoBench == [case |-> "none"]

\* ------------------------------------------------------------ CanaryRunner
Running == [kind |-> "running", value |-> None, exception |-> "none"]

Returned(code) == [kind |-> "returned", value |-> code, exception |-> "none"]

Raised(exception) == [kind |-> "raised", value |-> None, exception |-> exception]

NoSummary == [total |-> 0, passed |-> 0, failed |-> 0, duration |-> 0]

\* CanaryRunner.__init__
RunnerConstructed ==
  /\ config = NoConfig
  /\ fault_config = NoFaultConfig
  /\ results = <<>>
  /\ run_results = <<>>
  /\ scenario_idx = 0
  /\ step = 0
  /\ started_at = 0
  /\ clock = 0
  /\ exit_code = None
  /\ outcome = Running
  /\ phases = <<"Init">>
  /\ summary = NoSummary

Init ==
  /\ pc = "Init"
  /\ llm_provider = NoProvider
  /\ tool_provider = NoProvider
  /\ llm_last = NoLLMCall
  /\ tool_last = NoCall
  /\ hist = NoHist
  /\ config_file \in ConfigFiles
  /\ bench = NoBench
  /\ RunnerConstructed

\* variant: an error of parse_fault_injection_config is not fatal
LoadConfig_IgnoresFaultErrors ==
  /\ pc = "Init"
  /\ IF ValidConfig(config_file)
       THEN /\ config' = config_file
            /\ fault_config' = parse_fault_injection_config(config_file.fault_injection).config
            /\ pc' = "ConfigLoaded"
            /\ phases' = Append(phases, "ConfigLoaded")
            /\ UNCHANGED outcome
       ELSE /\ UNCHANGED <<config, fault_config, phases>>
            /\ outcome' = Returned(1)
            /\ pc' = "Done"
  /\ UNCHANGED <<provider_vars, hist, config_file, bench, results, run_results, scenario_idx,
                 step, started_at, clock, exit_code, summary>>

\* run, first try block: load_config and parse_fault_injection_config;
\* any exception returns 1
LoadConfig ==
  /\ pc = "Init"
  /\ LET doc == config_file
         parsed == parse_fault_injection_config(doc.fault_injection)
     IN IF ValidConfig(doc) /\ parsed.ok
         THEN /\ config' = doc
              /\ fault_config' = parsed.config
              /\ pc' = "ConfigLoaded"
              /\ phases' = Append(phases, "ConfigLoaded")
              /\ UNCHANGED outcome
         ELSE /\ config' = IF ValidConfig(doc) THEN doc ELSE config
              /\ UNCHANGED <<fault_config, phases>>
              /\ outcome' = Returned(1)
              /\ pc' = "Done"
  /\ UNCHANGED <<provider_vars, hist, config_file, bench, results, run_results, scenario_idx,
                 step, started_at, clock, exit_code, summary>>

\* run, second try block: the factory and the root agent; any exception
\* (here: of the agent's telemetry setup) returns 1
BuildAgent ==
  /\ pc = "ConfigLoaded"
  /\ \E setup_raises \in BOOLEAN :
       IF ~setup_raises /\ ~CreateRaises(config)
         THEN LET agent == create_from_config(config, fault_config) IN
              /\ llm_provider' = agent.llm_provider
              /\ tool_provider' = agent.tool_provider
              /\ pc' = "Executing"
              /\ scenario_idx' = 1
              /\ phases' = Append(phases, "AgentBuilt")
              /\ UNCHANGED <<outcome, hist>>
         ELSE /\ outcome' = Returned(1)
              /\ pc' = "Done"
              /\ hist' = [hist EXCEPT !.build_raised = TRUE]
              /\ UNCHANGED <<llm_provider, tool_provider, scenario_idx, phases>>
  /\ UNCHANGED <<llm_last, tool_last, config_file, bench, config, fault_config, results,
                 run_results, step, started_at, clock, exit_code, summary>>

InLoop == pc = "Executing" /\ scenario_idx <= Len(config.scenarios)

Current == config.scenarios[scenario_idx]

FaultsOn == ~fault_config.is_none /\ fault_config.enabled

\* variant: the result is put in front of the list
Record_Prepends(result) ==
  <<[result EXCEPT !.fault_attrs = FaultsOn]>> \o run_results

\* _execute_scenarios after scenario.execute returned: the fault attributes
\* are set on the result when fault injection is on, and it is appended
Record(result) ==
  Append(run_results, [result EXCEPT !.fault_attrs = FaultsOn])

\* variant: a name outside scenario_map is recorded as a failed scenario
SkipUnknown_RecordsFailure ==
  /\ InLoop
  /\ Current \notin Registry
  /\ scenario_idx' = scenario_idx + 1
  /\ run_results' = Append(run_results,
        [ScenarioResult(Current, FALSE, 0, <<"Unknown", "scenario">>, "")
           EXCEPT !.fault_attrs = TRUE])
  /\ hist' = [hist EXCEPT !.skipped = @ + 1]
  /\ UNCHANGED <<provider_vars, pc, config_file, bench, config, fault_config, results, step,
                 started_at, clock, exit_code, outcome, phases, summary>>

\* the loop of _execute_scenarios on a name outside scenario_map: continue
SkipUnknown ==
  /\ InLoop
  /\ Current \notin Registry
  /\ scenario_idx' = scenario_idx + 1
  /\ hist' = [hist EXCEPT !.skipped = @ + 1]
  /\ UNCHANGED <<provider_vars, pc, config_file, bench, config, fault_config, results, run_results, step,
                 started_at, clock, exit_code, outcome, phases, summary>>

\* variant: every scenario starts with a newly built root agent
Invoke_FreshAgentPerScenario ==
  /\ InLoop
  /\ Current \in Registry
  /\ LET at == IF step = 0 THEN 1 ELSE step
         start == IF step = 0 THEN clock ELSE started_at
         call == Script(Current)[at]
         agent == IF call.agent # "root" THEN ScenarioChildAgent
                  ELSE IF step = 0 THEN create_from_config(config, fault_config)
                  ELSE NewAgent(llm_provider, tool_provider)
     IN \E ls \in SampleInputs(agent.llm_provider), lb \in BurstInputs(agent.llm_provider),
           ts \in SampleInputs(agent.tool_provider), tb \in BurstInputs(agent.tool_provider) :
          LET r == AgentInvoke(agent, call.message, ls, lb, ts, tb)
              now == clock + (Slept(r.agent) - Slept(agent))
          IN /\ clock' = now
             /\ hist' = [hist EXCEPT
                   !.invokes = @ + 1, !.raised = r.status,
                   !.issued = IF step = 0
                                THEN [name |-> Current, calls |-> <<call>>,
                                      raised |-> <<r.status>>]
                                ELSE [name |-> @.name, calls |-> Append(@.calls, call),
                                      raised |-> Append(@.raised, r.status)]]
             /\ IF call.agent = "root"
                  THEN /\ llm_provider' = r.agent.llm_provider
                       /\ tool_provider' = r.agent.tool_provider
                  ELSE UNCHANGED <<llm_provider, tool_provider>>
             /\ IF r.status # "ok"
                  THEN /\ run_results' = Record(ClassifyException(Current, r.status,
                                                                  now - start))
                       /\ scenario_idx' = scenario_idx + 1
                       /\ step' = 0
                       /\ started_at' = start
                ELSE IF at = Len(Script(Current))
                  THEN /\ run_results' = Record(ScenarioResult(Current, TRUE, now - start,
                                                               <<>>, Current))
                       /\ scenario_idx' = scenario_idx + 1
                       /\ step' = 0
                       /\ started_at' = start
                ELSE /\ step' = at + 1
                     /\ started_at' = start
                     /\ UNCHANGED <<run_results, scenario_idx>>
  /\ UNCHANGED <<llm_last, tool_last, pc, config_file, bench, config, fault_config, results, exit_code,
                 outcome, phases, summary>>

\* variant: a scenario goes on with its script after an invoke has raised
Invoke_ContinuesAfterRaise ==
  /\ InLoop
  /\ Current \in Registry
  /\ LET at == IF step = 0 THEN 1 ELSE step
         start == IF step = 0 THEN clock ELSE started_at
         call == Script(Current)[at]
         agent == IF call.agent = "root" THEN NewAgent(llm_provider, tool_provider)
                  ELSE ScenarioChildAgent
     IN \E ls \in SampleInputs(agent.llm_provider), lb \in BurstInputs(agent.llm_provider),
           ts \in SampleInputs(agent.tool_provider), tb \in BurstInputs(agent.tool_provider) :
          LET r == AgentInvoke(agent, call.message, ls, lb, ts, tb)
              now == clock + (Slept(r.agent) - Slept(agent))
          IN /\ clock' = now
             /\ hist' = [hist EXCEPT
                   !.invokes = @ + 1, !.raised = r.status,
                   !.issued = IF step = 0
                                THEN [name |-> Current, calls |-> <<call>>,
                                      raised |-> <<r.status>>]
                                ELSE [name |-> @.name, calls |-> Append(@.calls, call),
                                      raised |-> Append(@.raised, r.status)]]
             /\ IF call.agent = "root"
                  THEN /\ llm_provider' = r.agent.llm_provider
                       /\ tool_provider' = r.agent.tool_provider
                  ELSE UNCHANGED <<llm_provider, tool_provider>>
             /\ IF r.status # "ok" /\ at = Len(Script(Current))
                  THEN /\ run_results' = Record(ClassifyException(Current, r.status,
                                                                  now - start))
                       /\ scenario_idx' = scenario_idx + 1
                       /\ step' = 0
                       /\ started_at' = start
                ELSE IF at = Len(Script(Current))
                  THEN /\ run_results' = Record(ScenarioResult(Current, TRUE, now - start,
                                                               <<>>, Current))
                       /\ scenario_idx' = scenario_idx + 1
                       /\ step' = 0
                       /\ started_at' = start
                ELSE /\ step' = at + 1
                     /\ started_at' = start
                     /\ UNCHANGED <<run_results, scenario_idx>>
  /\ UNCHANGED <<llm_last, tool_last, pc, config_file, bench, config, fault_config, results, exit_code,
                 outcome, phases, summary>>

\* one agent.invoke of the scenario being executed (the first one starts the
\* scenario); the invoke that raises, or the last one, ends the scenario and
\* its result is recorded
Invoke ==
  /\ InLoop
  /\ Current \in Registry
  /\ LET at == IF step = 0 THEN 1 ELSE step
         start == IF step = 0 THEN clock ELSE started_at
         call == Script(Current)[at]
         agent == IF call.agent = "root" THEN NewAgent(llm_provider, tool_provider)
                  ELSE ScenarioChildAgent
     IN \E ls \in SampleInputs(agent.llm_provider), lb \in BurstInputs(agent.llm_provider),
           ts \in SampleInputs(agent.tool_provider), tb \in BurstInputs(agent.tool_provider) :
          LET r == AgentInvoke(agent, call.message, ls, lb, ts, tb)
              now == clock + (Slept(r.agent) - Slept(agent))
          IN /\ clock' = now
             /\ hist' = [hist EXCEPT
                   !.invokes = @ + 1, !.raised = r.status,
                   !.issued = IF step = 0
                                THEN [name |-> Current, calls |-> <<call>>,
                                      raised |-> <<r.status>>]
                                ELSE [name |-> @.name, calls |-> Append(@.calls, call),
                                      raised |-> Append(@.raised, r.status)]]
             /\ IF call.agent = "root"
                  THEN /\ llm_provider' = r.agent.llm_provider
                       /\ tool_provider' = r.agent.tool_provider
                  ELSE UNCHANGED <<llm_provider, tool_provider>>
             /\ IF r.status # "ok"
                  THEN /\ run_results' = Record(ClassifyException(Current, r.status,
                                                                  now - start))
                       /\ scenario_idx' = scenario_idx + 1
                       /\ step' = 0
                       /\ started_at' = start
                ELSE IF at = Len(Script(Current))
                  THEN /\ run_results' = Record(ScenarioResult(Current, TRUE, now - start,
                                                               <<>>, Current))
                       /\ scenario_idx' = scenario_idx + 1
                       /\ step' = 0
                       /\ started_at' = start
                ELSE /\ step' = at + 1
                     /\ started_at' = start
                     /\ UNCHANGED <<run_results, scenario_idx>>
  /\ UNCHANGED <<llm_last, tool_last, pc, config_file, bench, config, fault_config, results, exit_code,
                 outcome, phases, summary>>

\* the keyword arguments of the ScenarioResult built by the except branch of
\* _execute_scenarios
HandlerKwargs ==
  {"scenario_name", "success", "duration_seconds", "error_message",
   "fault_injection_enabled", "active_fault_profiles"}

\* an exception escapes scenario.execute: the except branch of
\* _execute_scenarios builds a failed ScenarioResult with zero duration; the
\* dataclass raises TypeError on a keyword that is not one of its fields, and
\* nothing in run catches it
ScenarioCrash ==
  /\ InLoop
  /\ Current \in Registry
  /\ hist' = [hist EXCEPT !.crashes = @ + 1]
  /\ IF HandlerKwargs \subseteq ScenarioResultFields
       THEN /\ run_results' = Append(run_results,
                 [ScenarioResult(Current, FALSE, 0, <<"unexpected", "error">>, "")
                    EXCEPT !.fault_attrs = TRUE])
            /\ scenario_idx' = scenario_idx + 1
            /\ step' = 0
            /\ UNCHANGED <<pc, outcome>>
       ELSE /\ outcome' = Raised("TypeError")
            /\ pc' = "Done"
            /\ UNCHANGED <<run_results, scenario_idx, step>>
  /\ UNCHANGED <<provider_vars, config_file, bench, config, fault_config, results, started_at, clock,
                 exit_code, phases, summary>>

\* _execute_scenarios returns: self.results = results
ScenariosDone ==
  /\ pc = "Executing"
  /\ scenario_idx > Len(config.scenarios)
  /\ results' = run_results
  /\ pc' = "ScenariosExecuted"
  /\ phases' = Append(phases, "ScenariosExecuted")
  /\ UNCHANGED <<provider_vars, hist, config_file, bench, config, fault_config, run_results, scenario_idx,
                 step, started_at, clock, exit_code, outcome, summary>>

RECURSIVE SumDurations(_)
SumDurations(rs) ==
  IF rs = <<>> THEN 0 ELSE rs[1].duration_seconds + SumDurations(Tail(rs))

Count(rs, success) == Cardinality({i \in 1..Len(rs) : rs[i].success = success})

\* reading result.fault_injection_enabled works
HasFaultAttrs(result) ==
  "fault_injection_enabled" \in ScenarioResultFields \/ result.fault_attrs

\* variant: the summary reads fault_injection_enabled of every result
SummaryRaises_EveryResult(rs) == \E i \in 1..Len(rs) : ~HasFaultAttrs(rs[i])

\* _generate_summary raises AttributeError: the loop over the failed results
\* reads fault_injection_enabled of a result that has no such attribute
SummaryRaises(rs) ==
  /\ Count(rs, FALSE) > 0
  /\ \E i \in 1..Len(rs) : ~rs[i].success /\ ~HasFaultAttrs(rs[i])

\* exit_code = 0 if failure_count == 0 else 1
ExitCodeOf(rs) == IF Count(rs, FALSE) = 0 THEN 0 ELSE 1

\* run: exit_code = self._generate_summary()
GenerateSummary ==
  /\ pc = "ScenariosExecuted"
  /\ IF SummaryRaises(results)
       THEN /\ outcome' = Raised("AttributeError")
            /\ pc' = "Done"
            /\ UNCHANGED <<exit_code, phases>>
       ELSE /\ exit_code' = ExitCodeOf(results)
            /\ pc' = "Reported"
            /\ phases' = Append(phases, "Reported")
            /\ UNCHANGED outcome
  /\ summary' = [total |-> Len(results), passed |-> Count(results, TRUE),
                 failed |-> Count(results, FALSE), duration |-> SumDurations(results)]
  /\ UNCHANGED <<provider_vars, hist, config_file, bench, config, fault_config, results, run_results,
                 scenario_idx, step, started_at, clock>>

\* if "validation" in self.config and self.results
ValidationDue == config.validation # "absent" /\ results # <<>>

\* ms of the sleep before the validator queries
IngestionWait == 15000

\* variant: validation errors fail the run, and a validator exception escapes
ValidateTelemetry_Fatal ==
  /\ pc = "Reported"
  /\ ValidationDue
  /\ IF config.validation = "disabled"
       THEN /\ hist' = [hist EXCEPT !.validation = "skipped"]
            /\ pc' = "Validated"
            /\ UNCHANGED <<clock, phases, exit_code, outcome>>
       ELSE \E v \in {"clean", "errors", "raised"} :
              /\ hist' = [hist EXCEPT !.validation = v]
              /\ clock' = clock + IngestionWait
              /\ phases' = Append(phases, "TelemetryValidated")
              /\ exit_code' = IF v = "errors" THEN 1 ELSE exit_code
              /\ outcome' = IF v = "raised" THEN Raised("Exception") ELSE outcome
              /\ pc' = IF v = "raised" THEN "Done" ELSE "Validated"
  /\ UNCHANGED <<provider_vars, config_file, bench, config, fault_config, results, run_results,
                 scenario_idx, step, started_at, summary>>

\* _validate_telemetry: returns at once when validation is not enabled;
\* otherwise waits and runs the validator, whose errors are printed and whose
\* exceptions are caught
ValidateTelemetry ==
  /\ pc = "Reported"
  /\ ValidationDue
  /\ IF config.validation = "disabled"
       THEN /\ hist' = [hist EXCEPT !.validation = "skipped"]
            /\ UNCHANGED <<clock, phases>>
       ELSE \E v \in {"clean", "errors", "raised"} :
              /\ hist' = [hist EXCEPT !.validation = v]
              /\ clock' = clock + IngestionWait
              /\ phases' = Append(phases, "TelemetryValidated")
  /\ pc' = "Validated"
  /\ UNCHANGED <<provider_vars, config_file, bench, config, fault_config, results, run_results, scenario_idx,
                 step, started_at, exit_code, outcome, summary>>

\* return exit_code
Return ==
  /\ \/ pc = "Validated"
     \/ pc = "Reported" /\ ~ValidationDue
  /\ outcome' = Returned(exit_code)
  /\ pc' = "Done"
  /\ UNCHANGED <<provider_vars, hist, config_file, bench, config, fault_config, results, run_results,
                 scenario_idx, step, started_at, clock, exit_code, phases, summary>>

\* canary_runner.main: the status the process exits with
ProcessExit == IF outcome.kind = "returned" THEN outcome.value ELSE 1

Next ==
  \/ LoadConfig
  \/ BuildAgent
  \/ SkipUnknown
  \/ Invoke
  \/ ScenarioCrash
  \/ ScenariosDone
  \/ GenerateSummary
  \/ ValidateTelemetry
  \/ Return

Spec == Init /\ [][Next]_vars

\* ----------------------------------------------------- provider harness
\* One mock provider is constructed and called repeatedly, with any inputs.
HarnessMessages == {[len |-> 65, keyword |-> TRUE], [len |-> 55, keyword |-> FALSE]}

\* rate_limit_after: unset, every call rejected, the fourth call rejected
HarnessRateLimits == {None, 0, 3}

\* max_tokens: unset, below every total, between the totals of the truncated
\* and the full text answer, between the text and the tool-call totals
HarnessTokenLimits == {None, 1, 20, 40}

HarnessInit ==
  /\ pc = "harness"
  /\ \/ /\ llm_provider = NoProvider
        /\ \E r \in Rates, pat \in Patterns, c \in {1, RateDen} :
              tool_provider = NewMockToolProvider(r, 200, pat, c)
     \/ /\ tool_provider = NoProvider
        /\ \E r \in Rates, pat \in Patterns, rl \in HarnessRateLimits,
              mt \in HarnessTokenLimits, c \in {1, RateDen} :
              llm_provider = NewMockLLMProvider(500, r, pat, rl, mt, c)
  /\ llm_last = NoLLMCall
  /\ tool_last = NoCall
  /\ hist = NoHist
  /\ config_file = NoConfig
  /\ bench = NoBench
  /\ RunnerConstructed

ToolExecute ==
  /\ pc = "harness"
  /\ tool_provider.kind = "mock_tool"
  /\ tool_provider.call_count < MaxCalls
  /\ \E name \in ToolNames, arg \in {None, 5},
        s \in SampleInputs(tool_provider), b \in BurstInputs(tool_provider) :
       LET out == MockToolExecute(tool_provider, name, arg, s, b)
           forced == tool_provider.burst_state.in_burst
       IN /\ tool_provider' = out.provider
          /\ tool_last' = [status |-> out.status, was_in_burst |-> forced,
                           drew |-> out.provider.rng_pos - tool_provider.rng_pos,
                           tool_name |-> name, result |-> out.result]
          /\ hist' = [hist EXCEPT
                !.tool_faults = IF out.status = "MockToolFailure" THEN @ + 1 ELSE @,
                !.forced = IF forced THEN @ + 1 ELSE 0,
                !.calls = @ + 1]
  /\ UNCHANGED <<llm_provider, llm_last, pc, runner_vars, bench>>

LLMCall ==
  /\ pc = "harness"
  /\ llm_provider.kind = "mock_llm"
  /\ llm_provider.call_count < MaxCalls
  /\ \E m \in HarnessMessages, tools \in BOOLEAN,
        s \in SampleInputs(llm_provider), b \in BurstInputs(llm_provider) :
       LET out == MockLLMCall(llm_provider, m, tools, s, b)
           evaluated == out.response.status # "RateLimitError"
           forced == evaluated /\ llm_provider.burst_state.in_burst
       IN /\ llm_provider' = out.provider
          /\ llm_last' = [status |-> out.response.status, was_in_burst |-> forced,
                          drew |-> out.provider.rng_pos - llm_provider.rng_pos,
                          message |-> m, tools |-> tools, response |-> out.response]
          /\ hist' = [hist EXCEPT
                !.llm_faults = IF out.response.status = "MockLLMFailure" THEN @ + 1 ELSE @,
                !.forced = IF forced THEN @ + 1 ELSE IF evaluated THEN 0 ELSE @,
                !.calls = @ + 1]
  /\ UNCHANGED <<tool_provider, tool_last, pc, runner_vars, bench>>

HarnessNext == ToolExecute \/ LLMCall

ProviderSpec == HarnessInit /\ [][HarnessNext]_vars

\* ------------------------------------------------------------ agent bench
\* Two agents are built side by side and, except where only their construction
\* is compared (the reordered profile lists), driven with the same operations.
\* Every mock provider seeds a generator of its own with 42, so the two LLM
\* providers read equal streams and so do the two tool providers: the value
\* drawn at a position is fixed the first time one of the pair draws there,
\* and is the same for the other when it draws there later.

\* the fault profiles handed to the factory
BenchProfiles ==
  {FaultProfile("high_latency", [llm_latency_ms |-> 900, tool_latency_ms |-> 700]),
   FaultProfile("intermittent_failures",
                [llm_failure_rate |-> 1, tool_failure_rate |-> 2,
                 failure_pattern |-> "burst"]),
   FaultProfile("intermittent_failures", [failure_pattern |-> "periodic"]),
   FaultProfile("rate_limits", [trigger_after_calls |-> 1]),
   FaultProfile("token_limits", [max_tokens |-> 30]),
   FaultProfile("partial_responses", [completeness_ratio |-> 1]),
   FaultProfile("custom", [llm_latency_ms |-> 1, max_tokens |-> 1])}

ProfileLists == UNION {[1..n -> BenchProfiles] : n \in 0..MaxProfiles}

\* fault_config arguments of create_from_config: None, or a
\* FaultInjectionConfig built directly
BenchFaultConfigs ==
  {NoFaultConfig}
    \cup {FaultInjectionConfig(e, ps) : e \in BOOLEAN, ps \in ProfileLists}

\* config arguments of create_from_config, by the keys it reads
BenchConfigs(mode) == [mode : {mode}, tool_failure_rate : {None, RateDen}]

Reverse(seq) == [i \in 1..Len(seq) |-> seq[Len(seq) + 1 - i]]

\* a position of the stream nobody has drawn at
Unrevealed == [sample |-> None, burst |-> None]

\* variant: the generator is not seeded, every draw is fresh
SampleChoices_Unseeded(stream, p) == SampleInputs(p)

\* the values random() can return to provider p at its position of the stream
SampleChoices(stream, p) ==
  IF ~DrawsSample(p) THEN {0}
  ELSE IF p.rng_pos < Len(stream) /\ stream[p.rng_pos + 1].sample # None
    THEN {stream[p.rng_pos + 1].sample}
  ELSE Samples

\* the values randint(2, 4) can return to p right after that sample
BurstChoices(stream, p) ==
  IF ~(DrawsSample(p) /\ p.failure_pattern = "burst") THEN {2}
  ELSE IF p.rng_pos + 1 < Len(stream) /\ stream[p.rng_pos + 2].burst # None
    THEN {stream[p.rng_pos + 2].burst}
  ELSE BurstDraws

\* the stream after a call at position pos drew `drew` values from it
Reveal(stream, pos, drew, sample, burst_len) ==
  LET padded == IF Len(stream) >= pos + drew THEN stream
                ELSE stream \o [i \in 1..(pos + drew - Len(stream)) |-> Unrevealed]
      sampled == IF drew >= 1 THEN [padded EXCEPT ![pos + 1].sample = sample]
                 ELSE padded
  IN IF drew >= 2 THEN [sampled EXCEPT ![pos + 2].burst = burst_len] ELSE sampled

\* what is done to an agent: llm_provider.call alone, or agent.invoke
BenchOps ==
  {[kind |-> "invoke", message |-> MsgParis, tools |-> TRUE],
   [kind |-> "invoke", message |-> MsgAboutLondon, tools |-> TRUE],
   [kind |-> "call", message |-> MsgParis, tools |-> FALSE]}

\* one operation on an agent: what the caller sees (with what the LLM provider
\* and the tool provider answered), and the agent afterwards
BenchRun(agent, op, ls, lb, ts, tb) ==
  LET lc == LLMProviderCall(agent.llm_provider, op.message, op.tools, ls, lb) IN
  IF op.kind = "call"
    THEN [out |-> [status |-> lc.response.status, llm |-> lc.response, tool |-> "none",
                   llm_calls |-> 1, tool_calls |-> 0],
          agent |-> [agent EXCEPT !.llm_provider = lc.provider]]
    ELSE LET r == AgentInvoke(agent, op.message, ls, lb, ts, tb) IN
         [out |-> [status |-> r.status, llm |-> lc.response,
                   tool |-> IF r.tool_calls = 0 THEN "none"
                            ELSE ToolProviderExecute(agent.tool_provider, "get_weather",
                                                     ParisLen, ts, tb).status,
                   llm_calls |-> r.llm_calls, tool_calls |-> r.tool_calls],
          agent |-> r.agent]

Drew(before, after) ==
  IF before.kind = "real_tool" THEN 0 ELSE after.rng_pos - before.rng_pos

\* the outcomes of one operation, with the streams as they are known afterwards
BenchOutcomes(agent, stream, op) ==
  {LET r == BenchRun(agent, op, ls, lb, ts, tb) IN
   [agent |-> r.agent, out |-> r.out,
    stream |-> [llm |-> Reveal(stream.llm, agent.llm_provider.rng_pos,
                               Drew(agent.llm_provider, r.agent.llm_provider), ls, lb),
                tool |-> IF Drew(agent.tool_provider, r.agent.tool_provider) = 0
                         THEN stream.tool
                         ELSE Reveal(stream.tool, agent.tool_provider.rng_pos,
                                     Drew(agent.tool_provider, r.agent.tool_provider),
                                     ts, tb)]]
   : ls \in SampleChoices(stream.llm, agent.llm_provider),
     lb \in BurstChoices(stream.llm, agent.llm_provider),
     ts \in SampleChoices(stream.tool, agent.tool_provider),
     tb \in BurstChoices(stream.tool, agent.tool_provider)}

\* the names children are registered under, and one that never is
ChildNames == {"planner", "worker"}

RequestedNames == ChildNames \cup {"ghost"}

\* the agents _create_agent_hierarchy registers as children
ChildAgents ==
  {create_from_config(cfg, fc) :
     cfg \in BenchConfigs("mock"),
     fc \in {FaultInjectionConfig(TRUE, ps) : ps \in {l \in ProfileLists : Len(l) <= 1}}}

\* a parent with its child_agents, and the invoke_child_agent calls made so far
Family(child_agents) ==
  [case |-> "family",
   parent |-> [llm_provider |-> create_mock_agent(500, 200, 0).llm_provider,
               tool_provider |-> create_mock_agent(500, 200, 0).tool_provider,
               child_agents |-> child_agents],
   calls |-> <<>>]

Bench(case, cfg, fc_a, fc_b, a, b) ==
  [case |-> case, cfg |-> cfg, fc_a |-> fc_a, fc_b |-> fc_b,
   built_a |-> a, built_b |-> b, a |-> a, b |-> b,
   stream |-> [llm |-> <<>>, tool |-> <<>>],
   ops |-> <<>>, out_a |-> <<>>, out_b |-> <<>>]

BenchInit ==
  /\ pc = "bench"
  /\ llm_provider = NoProvider
  /\ tool_provider = NoProvider
  /\ llm_last = NoLLMCall
  /\ tool_last = NoCall
  /\ hist = NoHist
  /\ config_file = NoConfig
  /\ RunnerConstructed
  /\ \/ \E r \in Rates, pat \in Patterns, rl \in {None, 1}, mt \in {None, 30},
           c \in {1, RateDen} :
          LET agent == NewAgent(NewMockLLMProvider(500, r, pat, rl, mt, c),
                                NewMockToolProvider(r, 200, pat, c))
          IN bench = Bench("same", [mode |-> "mock", tool_failure_rate |-> r],
                           NoFaultConfig, NoFaultConfig, agent, agent)
     \/ \E cfg \in BenchConfigs("mock"), ps \in ProfileLists :
          bench = Bench("disabled", cfg, FaultInjectionConfig(FALSE, ps), NoFaultConfig,
                        create_from_config(cfg, FaultInjectionConfig(FALSE, ps)),
                        create_from_config(cfg, NoFaultConfig))
     \/ \E cfg \in BenchConfigs("mock"), ps \in ProfileLists :
          bench = Bench("reordered", cfg, FaultInjectionConfig(TRUE, ps),
                        FaultInjectionConfig(TRUE, Reverse(ps)),
                        create_from_config(cfg, FaultInjectionConfig(TRUE, ps)),
                        create_from_config(cfg, FaultInjectionConfig(TRUE, Reverse(ps))))
     \/ \E cfg \in BenchConfigs("real"), fc \in BenchFaultConfigs :
          bench = Bench("real", cfg, fc, NoFaultConfig,
                        create_from_config(cfg, fc),
                        create_from_config(cfg, NoFaultConfig))
     \/ \E names \in SUBSET ChildNames :
          \E child_agents \in [names -> ChildAgents] : bench = Family(child_agents)

\* a new operation is applied to the first agent
BenchLead ==
  /\ pc = "bench"
  /\ bench.case \in {"same", "disabled", "real"}
  /\ Len(bench.out_b) = Len(bench.ops)
  /\ Len(bench.ops) < MaxOps
  /\ \E op \in BenchOps :
       \E res \in BenchOutcomes(bench.a, bench.stream, op) :
         bench' = [bench EXCEPT !.a = res.agent, !.stream = res.stream,
                                !.ops = Append(@, op),
                                !.out_a = Append(@, res.out)]
  /\ UNCHANGED <<provider_vars, hist, pc, runner_vars>>

\* the same operation is applied to the second agent
BenchFollow ==
  /\ pc = "bench"
  /\ bench.case \in {"same", "disabled", "real"}
  /\ Len(bench.out_b) < Len(bench.ops)
  /\ \E res \in BenchOutcomes(bench.b, bench.stream, bench.ops[Len(bench.out_b) + 1]) :
       bench' = [bench EXCEPT !.b = res.agent, !.stream = res.stream,
                              !.out_b = Append(@, res.out)]
  /\ UNCHANGED <<provider_vars, hist, pc, runner_vars>>

\* the parent is asked for a child by name
InvokeChildAgent ==
  /\ pc = "bench"
  /\ bench.case = "family"
  /\ Len(bench.calls) < MaxOps
  /\ \E child_name \in RequestedNames, message \in {MsgParis, MsgSubtask} :
       LET child == IF child_name \in DOMAIN bench.parent.child_agents
                      THEN bench.parent.child_agents[child_name]
                      ELSE bench.parent
       IN \E ls \in SampleInputs(child.llm_provider), lb \in BurstInputs(child.llm_provider),
             ts \in SampleInputs(child.tool_provider), tb \in BurstInputs(child.tool_provider) :
            LET r == invoke_child_agent(bench.parent, child_name, message, ls, lb, ts, tb)
            IN bench' = [bench EXCEPT
                           !.parent = r.agent,
                           !.calls = Append(@, [child_name |-> child_name,
                                                status |-> r.status,
                                                available |-> r.available])]
  /\ UNCHANGED <<provider_vars, hist, pc, runner_vars>>

BenchNext == BenchLead \/ BenchFollow \/ InvokeChildAgent

BenchSpec == BenchInit /\ [][BenchNext]_vars

\* ------------------------------------------------- fault configuration
\* A fault_injection section is parsed, or a FaultInjectionConfig is built
\* directly, and the configuration is then asked for a profile and a parameter.

ProfileNames ==
  {"high_latency", "intermittent_failures", "rate_limits", "token_limits",
   "partial_responses", "custom"}

\* the parameter blocks a section may give a profile name
Blocks(name) ==
  IF name = "high_latency"
    THEN <<[llm_latency_ms |-> 0], [llm_latency_ms |-> 0 - 2], [tool_latency_ms |-> 700],
           [tool_latency_ms |-> 0 - 2], [llm_latency_ms |-> 900, tool_latency_ms |-> 700],
           <<>>>>
  ELSE IF name = "intermittent_failures"
    THEN <<[llm_failure_rate |-> 0, tool_failure_rate |-> RateDen,
            failure_pattern |-> "periodic"],
           [llm_failure_rate |-> RateDen + 1], [tool_failure_rate |-> 0 - 2],
           [failure_pattern |-> "always"],
           [llm_failure_rate |-> 1, failure_pattern |-> "burst"], <<>>>>
  ELSE IF name = "rate_limits"
    THEN <<[trigger_after_calls |-> 0], [trigger_after_calls |-> 1],
           [trigger_after_calls |-> 0 - 2], [trigger_after_calls |-> 3], <<>>,
           [trigger_after_calls |-> 1]>>
  ELSE IF name = "token_limits"
    THEN <<[max_tokens |-> 1], [max_tokens |-> 0], [max_tokens |-> 30, exceed_by |-> 0],
           [max_tokens |-> 30, exceed_by |-> 0 - 2], [max_tokens |-> 0 - 2], <<>>>>
  ELSE IF name = "partial_responses"
    THEN <<[completeness_ratio |-> 0], [completeness_ratio |-> RateDen],
           [completeness_ratio |-> RateDen + 1], [completeness_ratio |-> 0 - 2],
           [completeness_ratio |-> 1], <<>>>>
  ELSE <<[max_tokens |-> 0 - 2, completeness_ratio |-> RateDen + 1],
         [max_tokens |-> 0 - 2, completeness_ratio |-> RateDen + 1],
         [failure_pattern |-> "always"], [failure_pattern |-> "always"], <<>>, <<>>>>

NameLists == UNION {[1..n -> ProfileNames] : n \in 0..MaxProfiles}

\* the fault_injection sections handed to the parser: a list of names, and
\* blocks for some of the names listed
ParseSections ==
  UNION {{[present |-> TRUE, enabled |-> e, profiles |-> names,
           blocks |-> [n \in {names[i] : i \in 1..Len(names)} \ {missing}
                         |-> Blocks(n)[k]]] :
            e \in BOOLEAN, k \in 1..6, missing \in ProfileNames} :
         names \in NameLists}
    \cup {SectionAbsent}

\* what the configuration is asked: a profile name, a parameter key, a default
Lookups ==
  [name : ProfileNames \cup {"absent"},
   key : {"llm_failure_rate", "max_tokens", "completeness_ratio"},
   default : {None, 7}]
    \cup [name : ProfileNames \cup {"absent"}, key : {"failure_pattern"},
          default : {"random"}]

NoLookup == [name |-> "none"]

ConfigInit ==
  /\ pc = "config"
  /\ llm_provider = NoProvider
  /\ tool_provider = NoProvider
  /\ llm_last = NoLLMCall
  /\ tool_last = NoCall
  /\ hist = NoHist
  /\ config_file = NoConfig
  /\ RunnerConstructed
  /\ \/ \E section \in ParseSections :
          bench = [case |-> "config", section |-> section, status |-> "unparsed",
                   fc |-> NoFaultConfig, lookup |-> NoLookup]
     \/ \E fc \in BenchFaultConfigs \ {NoFaultConfig} :
          bench = [case |-> "config", section |-> SectionAbsent, status |-> "built",
                   fc |-> fc, lookup |-> NoLookup]

\* parse_fault_injection_config is applied to the section
ParseFaultInjection ==
  /\ pc = "config"
  /\ bench.status = "unparsed"
  /\ LET parsed == parse_fault_injection_config(bench.section) IN
     bench' = [bench EXCEPT !.status = IF parsed.ok THEN "ok" ELSE "ValueError",
                            !.fc = parsed.config]
  /\ UNCHANGED <<provider_vars, hist, pc, runner_vars>>

\* get_profile, is_profile_enabled and get_parameter are called
Lookup ==
  /\ pc = "config"
  /\ bench.status \in {"ok", "built"}
  /\ ~bench.fc.is_none
  /\ bench.lookup = NoLookup
  /\ \E q \in Lookups :
       bench' = [bench EXCEPT !.lookup =
                   [name |-> q.name, key |-> q.key, default |-> q.default,
                    profile |-> get_profile(bench.fc, q.name),
                    enabled |-> is_profile_enabled(bench.fc, q.name),
                    value |-> get_parameter(bench.fc, q.name, q.key, q.default)]]
  /\ UNCHANGED <<provider_vars, hist, pc, runner_vars>>

ConfigNext == ParseFaultInjection \/ Lookup

ConfigSpec == ConfigInit /\ [][ConfigNext]_vars

\* ------------------------------------------------- agent hierarchy harness
\* agent_name values of the declared nodes; Undeclared is a node without one
Undeclared == "(no agent_name)"

NodeNames == {"planner", "worker", "Child Agent", Undeclared}

\* span_kind values of a declared node; NoSpanKind is a node without the key
NoSpanKind == "(no span_kind)"

SpanKindStrings ==
  {"INTERNAL", "CLIENT", "SERVER", "PRODUCER", "CONSUMER", "client", "REMOTE"}

\* the shapes of a declaration of n nodes: node 1 is the root, node i > 1 is
\* listed under the "children" of parent[i], siblings in the order of their
\* numbers
Shapes(n) == {f \in [2..n -> 1..n] : \A i \in 2..n : f[i] < i}

\* config["agent"] documents; a node's agent_id is its number. The first
\* family varies the names; the second gives the last node a span_kind and,
\* when own_rate is set, a tool_failure_rate key of its own
AgentConfigs ==
  UNION {[n : {n}, parent : Shapes(n), agent_name : [1..n -> NodeNames],
          span_kind : {NoSpanKind}, own_rate : {None}] : n \in 1..MaxNodes}
    \cup
  UNION {[n : {n}, parent : Shapes(n),
          agent_name : {[i \in 1..n |-> IF i % 2 = 1 THEN "planner" ELSE "worker"]},
          span_kind : SpanKindStrings, own_rate : {None, RateDen}] : n \in 1..MaxNodes}

\* agent_config["children"] of a node, as the set of their numbers
Children(doc, i) == {j \in 2..doc.n : doc.parent[j] = i}

\* child_config.get("agent_name", "Child Agent")
ChildKey(doc, j) ==
  IF doc.agent_name[j] = Undeclared THEN "Child Agent" ELSE doc.agent_name[j]

\* variant: an entry already in the mapping is kept
Put_FirstWins(d, k, v) == [x \in DOMAIN d \cup {k} |-> IF x \in DOMAIN d THEN d[x] ELSE v]

\* child_agents[child_name] = child_agent
Put(d, k, v) == [x \in DOMAIN d \cup {k} |-> IF x = k THEN v ELSE d[x]]

\* the config dictionary built for a node: the mode, the node's agent_id and
\* agent_name, and the settings of the run; no other key of the node is copied
NodeConfig(doc, i, cfg) ==
  [mode |-> cfg.mode, agent_id |-> i, agent_name |-> doc.agent_name[i],
   tool_failure_rate |-> cfg.tool_failure_rate]

\* variant: every agent is handed the providers made first
Allocate_Shared(order) == [llm_provider |-> 1, tool_provider |-> 2]

\* the provider objects constructed by the order-th call of
\* create_from_config: two new objects, named by their place in the heap
Allocate(order) == [llm_provider |-> 2 * order - 1, tool_provider |-> 2 * order]

\* variant: any span_kind string replaces the agent's kind
SetSpanKind_AnyString(kind, span_kind_str) ==
  IF span_kind_str # NoSpanKind THEN span_kind_str ELSE kind

\* the if/elif chain on span_kind_str
SetSpanKind(kind, span_kind_str) ==
  IF span_kind_str = "INTERNAL" THEN "INTERNAL"
  ELSE IF span_kind_str = "CLIENT" THEN "CLIENT"
  ELSE IF span_kind_str = "SERVER" THEN "SERVER"
  ELSE IF span_kind_str = "PRODUCER" THEN "PRODUCER"
  ELSE IF span_kind_str = "CONSUMER" THEN "CONSUMER"
  ELSE kind

RECURSIVE create_agent_hierarchy(_, _, _, _, _), AttachChildren(_, _, _, _, _, _, _, _)

\* the loop over agent_config["children"]: each child is built in turn and
\* stored under its name; built collects every agent in creation order and
\* made the providers constructed for it; base agents were created before
AttachChildren(doc, rest, cfg, fc, base, child_agents, built, made) ==
  IF rest = {} THEN [child_agents |-> child_agents, built |-> built, made |-> made]
  ELSE LET j == CHOOSE x \in rest : \A y \in rest : x <= y
           r == create_agent_hierarchy(doc, j, cfg, fc, base + Len(built))
       IN AttachChildren(doc, rest \ {j}, cfg, fc, base,
                         Put(child_agents, ChildKey(doc, j), r.agent),
                         built \o r.built, made \o r.made)

\* _create_agent_hierarchy for node i: the children first, then this agent,
\* which holds its providers by reference
create_agent_hierarchy(doc, i, cfg, fc, base) ==
  LET kids == AttachChildren(doc, Children(doc, i), cfg, fc, base, <<>>, <<>>, <<>>)
      made == create_from_config(NodeConfig(doc, i, cfg), fc)
      refs == Allocate(base + Len(kids.built) + 1)
      agent == [agent_id |-> i,
                agent_name |-> IF doc.agent_name[i] = Undeclared
                                 THEN "Canary Agent" ELSE doc.agent_name[i],
                span_kind |-> SetSpanKind("INTERNAL",
                                          IF i = doc.n THEN doc.span_kind ELSE NoSpanKind),
                llm_provider |-> refs.llm_provider,
                tool_provider |-> refs.tool_provider,
                child_agents |-> kids.child_agents]
  IN [agent |-> agent, built |-> Append(kids.built, agent),
      made |-> Append(kids.made, made)]

RECURSIVE count_agents(_), CountValues(_, _)

\* the loop over agent.child_agents.values()
CountValues(agent, keys) ==
  IF keys = {} THEN 0
  ELSE LET k == CHOOSE x \in keys : TRUE
       IN count_agents(agent.child_agents[k]) + CountValues(agent, keys \ {k})

\* _count_agents
count_agents(agent) == 1 + CountValues(agent, DOMAIN agent.child_agents)

\* the agent_ids of the agents a scenario can invoke through the root: the
\* root itself and, by invoke_child_agent, the values of its child_agents
Invocable(root) ==
  {root.agent_id} \cup {root.child_agents[k].agent_id : k \in DOMAIN root.child_agents}

HierarchyFaultConfigs ==
  {NoFaultConfig,
   FaultInjectionConfig(TRUE, <<FaultProfile("rate_limits", [trigger_after_calls |-> 1])>>),
   FaultInjectionConfig(TRUE, <<FaultProfile("intermittent_failures",
                                             [llm_failure_rate |-> 1, tool_failure_rate |-> 2,
                                              failure_pattern |-> "burst"])>>)}

HierarchyInit ==
  /\ pc = "hierarchy"
  /\ llm_provider = NoProvider
  /\ tool_provider = NoProvider
  /\ llm_last = NoLLMCall
  /\ tool_last = NoCall
  /\ hist = NoHist
  /\ config_file = NoConfig
  /\ RunnerConstructed
  /\ \E doc \in AgentConfigs, fc \in HierarchyFaultConfigs, mode \in {"mock", "real"} :
       /\ doc.span_kind = NoSpanKind =>
            /\ mode = "mock"
            /\ IF Len(fc.profiles) = 0 THEN TRUE ELSE fc.profiles[1].name = "rate_limits"
       /\ bench = [case |-> "hierarchy", agent |-> doc, mode |-> mode, fc |-> fc,
                   status |-> "declared", root |-> <<>>, built |-> <<>>,
                   total_agents |-> 0, objects |-> <<>>, invoked |-> 0]

\* run: the hierarchy is built from config["agent"] and its agents are
\* counted; objects holds the providers constructed, two per agent
CreateAgentHierarchy ==
  /\ pc = "hierarchy"
  /\ bench.status = "declared"
  /\ LET r == create_agent_hierarchy(bench.agent, 1,
                                     [mode |-> bench.mode, tool_failure_rate |-> None],
                                     bench.fc, 0)
     IN bench' = [bench EXCEPT
                    !.status = "built", !.root = r.agent, !.built = r.built,
                    !.total_agents = count_agents(r.agent),
                    !.objects = [ref \in 1..(2 * Len(r.made)) |->
                                   IF ref % 2 = 1
                                     THEN r.made[(ref + 1) \div 2].llm_provider
                                     ELSE r.made[ref \div 2].tool_provider]]
  /\ UNCHANGED <<provider_vars, hist, pc, runner_vars>>

\* one agent of the hierarchy is invoked
InvokeNode ==
  /\ pc = "hierarchy"
  /\ bench.status = "built"
  /\ \E x \in 1..Len(bench.built) :
       LET agent == bench.built[x]
           llm == bench.objects[agent.llm_provider]
           tool == bench.objects[agent.tool_provider]
       IN /\ agent.agent_id \in Invocable(bench.root)
          /\ \E ls \in SampleInputs(llm), lb \in BurstInputs(llm),
                ts \in SampleInputs(tool), tb \in BurstInputs(tool) :
               LET r == AgentInvoke(NewAgent(llm, tool), MsgParis, ls, lb, ts, tb)
               IN bench' = [bench EXCEPT
                              !.status = "invoked", !.invoked = agent.agent_id,
                              !.objects = [ref \in DOMAIN bench.objects |->
                                             IF ref = agent.llm_provider
                                               THEN r.agent.llm_provider
                                             ELSE IF ref = agent.tool_provider
                                               THEN r.agent.tool_provider
                                             ELSE bench.objects[ref]]]
  /\ UNCHANGED <<provider_vars, hist, pc, runner_vars>>

HierarchyNext == CreateAgentHierarchy \/ InvokeNode

HierarchySpec == HierarchyInit /\ [][HierarchyNext]_vars

\* ----------------------------------------------------- structured results
\* Tool results with their nesting: a value is a string (its characters), a
\* number, a dictionary (a function from keys to values) or a list.
Str(chars) == [t |-> "str", v |-> chars]

Num(n) == [t |-> "num", v |-> n]

Dict(items) == [t |-> "dict", v |-> items]

List(items) == [t |-> "list", v |-> items]

RECURSIVE truncate_response_ListsKept(_, _)

\* variant: lists are returned as they are
truncate_response_ListsKept(result, ratio) ==
  IF ratio >= RateDen THEN result
  ELSE [key \in DOMAIN result |->
          IF result[key].t = "str"
            THEN Str(SubSeq(result[key].v, 1, TruncateAt(Len(result[key].v), ratio)))
          ELSE IF result[key].t = "dict"
            THEN Dict(truncate_response_ListsKept(result[key].v, ratio))
          ELSE IF result[key].t = "list"
            THEN result[key]
          ELSE result[key]]

RECURSIVE truncate_response(_, _)

\* _truncate_response on the result dictionary itself
truncate_response(result, ratio) ==
  IF ratio >= RateDen THEN result
  ELSE [key \in DOMAIN result |->
          IF result[key].t = "str"
            THEN Str(SubSeq(result[key].v, 1, TruncateAt(Len(result[key].v), ratio)))
          ELSE IF result[key].t = "dict"
            THEN Dict(truncate_response(result[key].v, ratio))
          ELSE IF result[key].t = "list"
            THEN List([i \in 1..Len(result[key].v) |->
                        LET item == result[key].v[i] IN
                        IF item.t = "str"
                          THEN Str(SubSeq(item.v, 1, TruncateAt(Len(item.v), ratio)))
                        ELSE IF item.t = "dict"
                          THEN Dict(truncate_response(item.v, ratio))
                        ELSE item])
          ELSE result[key]]

\* the "location" arguments get_weather is called with, in a sequence:
\* "Paris", a number, ["Paris", ["Lyon"]]
Locations ==
  <<Str(<<"P", "a", "r", "i", "s">>), Num(7),
   List(<<Str(<<"P", "a", "r", "i", "s">>), List(<<Str(<<"L", "y", "o", "n">>)>>)>>)>>

\* the result get_weather builds for a location
WeatherResult(location) ==
  [location |-> location,
   temperature |-> Str(<<"7", "2", "°", "F">>),
   condition |-> Str(<<"s", "u", "n", "n", "y">>),
   humidity |-> Str(<<"4", "5", "%">>),
   wind_speed |-> Str(<<"8", " ", "m", "p", "h">>)]

\* the result search builds for the query "ab"
SearchResult ==
  [results |->
     List(<<Dict([title |-> Str(<<"R", "e", "s", "u", "l", "t", " ", "1", " ", "f", "o", "r", " ", "a", "b">>),
                  url |-> Str(<<"h", "t", "t", "p", "s", ":", "/", "/", "e", "x", "a", "m", "p", "l", "e", ".", "c", "o", "m", "/", "1">>)]),
            Dict([title |-> Str(<<"R", "e", "s", "u", "l", "t", " ", "2", " ", "f", "o", "r", " ", "a", "b">>),
                  url |-> Str(<<"h", "t", "t", "p", "s", ":", "/", "/", "e", "x", "a", "m", "p", "l", "e", ".", "c", "o", "m", "/", "2">>)])>>)]

ToolResults ==
  [i \in 1..Len(Locations) |-> WeatherResult(Locations[i])] \o <<SearchResult>>

\* ------------------------------------------------------- invoke harness
\* Message contents are sequences of characters.
\* the system message of invoke: "You are a helpful weather assistant."
SystemContent ==
  <<"Y", "o", "u", " ", "a", "r", "e", " ", "a", " ", "h", "e",
    "l", "p", "f", "u", "l", " ", "w", "e", "a", "t", "h", "e",
    "r", " ", "a", "s", "s", "i", "s", "t", "a", "n", "t", ".">>

\* user messages: "", "Hi!", "Hot?", "WEATHER", "whether", "weathers",
\* "Temperature!"
UserTexts ==
  {<<>>,
   <<"H", "i", "!">>,
   <<"H", "o", "t", "?">>,
   <<"W", "E", "A", "T", "H", "E", "R">>,
   <<"w", "h", "e", "t", "h", "e", "r">>,
   <<"w", "e", "a", "t", "h", "e", "r", "s">>,
   <<"T", "e", "m", "p", "e", "r", "a", "t", "u", "r", "e", "!">>}

UpperCase ==
  [A |-> "a", E |-> "e", H |-> "h", R |-> "r", T |-> "t", W |-> "w", Y |-> "y"]

\* str.lower
Lower(text) ==
  [i \in 1..Len(text) |-> IF text[i] \in DOMAIN UpperCase THEN UpperCase[text[i]] ELSE text[i]]

RECURSIVE JoinedLen_NoSeparator(_)

\* variant: the contents are concatenated without a separator
JoinedLen_NoSeparator(messages) ==
  IF Len(messages) = 0 THEN 0
  ELSE Len(messages[1]) + JoinedLen_NoSeparator(Tail(messages))

RECURSIVE JoinedLen(_)

\* len(" ".join(msg["content"] for msg in messages))
JoinedLen(messages) ==
  IF Len(messages) = 0 THEN 0
  ELSE IF Len(messages) = 1 THEN Len(messages[1])
  ELSE Len(messages[1]) + 1 + JoinedLen(Tail(messages))

\* variant: the last message is searched as it was typed
Prompt_CaseSensitive(messages) ==
  [len |-> JoinedLen(messages),
   keyword |-> \/ Contains(messages[Len(messages)],
                           <<"w", "e", "a", "t", "h", "e", "r">>)
               \/ Contains(messages[Len(messages)],
                           <<"t", "e", "m", "p", "e", "r", "a", "t", "u", "r", "e">>)]

\* what call reads of its messages: the length of the joined prompt and
\* whether the lowercased last message names a weather word
Prompt(messages) ==
  [len |-> JoinedLen(messages),
   keyword |-> \/ Contains(Lower(messages[Len(messages)]),
                           <<"w", "e", "a", "t", "h", "e", "r">>)
               \/ Contains(Lower(messages[Len(messages)]),
                           <<"t", "e", "m", "p", "e", "r", "a", "t", "u", "r", "e">>)]

\* the messages invoke sends for a user message
InvokeMessages(user_message) == <<SystemContent, user_message>>

NoOp == [op |-> "none"]

\* the agents the operations are made on
InvokeAgents ==
  {create_from_config([mode |-> mode, tool_failure_rate |-> None], fc) :
     mode \in {"mock", "real"},
     fc \in {FaultInjectionConfig(TRUE, ps) : ps \in {l \in ProfileLists : Len(l) <= 1}}
             \cup {FaultInjectionConfig(TRUE, <<FaultProfile("partial_responses",
                                                             [completeness_ratio |-> r])>>) :
                      r \in {0, RateDen - 1}}}

InvokeInit ==
  /\ pc = "invoke"
  /\ llm_provider = NoProvider
  /\ tool_provider = NoProvider
  /\ llm_last = NoLLMCall
  /\ tool_last = NoCall
  /\ hist = NoHist
  /\ config_file = NoConfig
  /\ RunnerConstructed
  /\ \E agent \in InvokeAgents : bench = [case |-> "invoke", agent |-> agent, n |-> 0, last |-> NoOp]

\* agent.invoke(user_message)
InvokeOp ==
  /\ pc = "invoke"
  /\ bench.n < MaxOps
  /\ \E text \in UserTexts,
        ls \in SampleInputs(bench.agent.llm_provider), lb \in BurstInputs(bench.agent.llm_provider),
        ts \in SampleInputs(bench.agent.tool_provider), tb \in BurstInputs(bench.agent.tool_provider) :
       LET message == Prompt(InvokeMessages(text))
           r == AgentInvoke(bench.agent, message, ls, lb, ts, tb)
           lc == LLMProviderCall(bench.agent.llm_provider, message, TRUE, ls, lb)
       IN bench' = [bench EXCEPT
                      !.agent = r.agent, !.n = @ + 1,
                      !.last = [op |-> "invoke", messages |-> InvokeMessages(text),
                                tools |-> TRUE, status |-> r.status,
                                response |-> lc.response, tool_calls |-> r.tool_calls]]
  /\ UNCHANGED <<provider_vars, hist, pc, runner_vars>>

\* llm_provider.call(model, messages, tools)
CallOp ==
  /\ pc = "invoke"
  /\ bench.n < MaxOps
  /\ \E text \in UserTexts, tools \in BOOLEAN, with_system \in BOOLEAN,
        ls \in SampleInputs(bench.agent.llm_provider), lb \in BurstInputs(bench.agent.llm_provider) :
       LET messages == IF with_system THEN InvokeMessages(text) ELSE <<text>>
           lc == LLMProviderCall(bench.agent.llm_provider, Prompt(messages), tools, ls, lb)
       IN bench' = [bench EXCEPT
                      !.agent.llm_provider = lc.provider, !.n = @ + 1,
                      !.last = [op |-> "call", messages |-> messages,
                                tools |-> tools, status |-> lc.response.status,
                                response |-> lc.response, tool_calls |-> 0]]
  /\ UNCHANGED <<provider_vars, hist, pc, runner_vars>>

\* tool_provider.execute returns: the result it built goes through
\* _truncate_response with the provider's completeness ratio
TruncateOp ==
  /\ pc = "invoke"
  /\ bench.n < MaxOps
  /\ bench.agent.tool_provider.kind = "mock_tool"
  /\ \E i \in 1..Len(ToolResults) :
       bench' = [bench EXCEPT
                   !.n = @ + 1,
                   !.last = [op |-> "truncate", result |-> ToolResults[i],
                             ratio |-> bench.agent.tool_provider.completeness_ratio,
                             truncated |-> truncate_response(
                                ToolResults[i],
                                bench.agent.tool_provider.completeness_ratio)]]
  /\ UNCHANGED <<provider_vars, hist, pc, runner_vars>>

InvokeNext == InvokeOp \/ CallOp \/ TruncateOp

InvokeSpec == InvokeInit /\ [][InvokeNext]_vars

\* ------------------------------------------------------- provider claims
Tool == tool_provider

Llm == llm_provider

Min(a, b) == IF a <= b THEN a ELSE b

\* calls of the LLM provider that reached the fault-pattern evaluator
LLMEvaluated ==
  IF Llm.rate_limit_after = None THEN Llm.call_count
  ELSE Min(Llm.call_count, Llm.rate_limit_after)

\* C8: under the periodic pattern with 0 < r < 1 the k-th call fails iff
\* k mod floor(1/r) = 0, and after N calls the failures number
\* floor(N / floor(1/r)); on the LLM provider this is about the calls that
\* the rate limit did not reject first.
C8_PeriodicFailures ==
  /\ (/\ pc = "harness"
      /\ Tool.kind = "mock_tool"
      /\ Tool.failure_pattern = "periodic"
      /\ Tool.failure_rate > 0 /\ Tool.failure_rate < RateDen
      /\ tool_last.status # "none")
     => /\ (tool_last.status = "MockToolFailure")
             <=> (Tool.call_count % (RateDen \div Tool.failure_rate) = 0)
        /\ hist.tool_faults = Tool.call_count \div (RateDen \div Tool.failure_rate)
  /\ (/\ pc = "harness"
      /\ Llm.kind = "mock_llm"
      /\ Llm.failure_pattern = "periodic"
      /\ Llm.failure_rate > 0 /\ Llm.failure_rate < RateDen
      /\ llm_last.status # "none")
     => /\ llm_last.status # "RateLimitError"
             => ((llm_last.status = "MockLLMFailure")
                   <=> (Llm.call_count % (RateDen \div Llm.failure_rate) = 0))
        /\ hist.llm_faults = LLMEvaluated \div (RateDen \div Llm.failure_rate)

\* a periodic tool provider with period above 1 has just failed for the second time
C8_Witness ==
  /\ pc = "harness"
  /\ Tool.kind = "mock_tool"
  /\ Tool.failure_pattern = "periodic"
  /\ Tool.failure_rate > 0
  /\ RateDen \div Tool.failure_rate > 1
  /\ tool_last.status = "MockToolFailure"
  /\ hist.tool_faults = 2

BurstClaim(p, last) ==
  (p.kind # "none" /\ p.failure_pattern = "burst") =>
    \* a call evaluated inside a burst fails and draws nothing
    /\ last.was_in_burst => (last.status \in {"MockToolFailure", "MockLLMFailure"}
                             /\ last.drew = 0)
    \* the burst lasts for the 2..4 calls fixed when it was triggered
    /\ p.burst_state.in_burst =>
          /\ p.burst_state.burst_remaining \in 1..4
          /\ hist.forced + p.burst_state.burst_remaining \in 2..4
    \* it is over after 2..4 forced failures
    /\ (last.was_in_burst /\ ~p.burst_state.in_burst) => hist.forced \in 2..4
    \* outside a burst the call is decided by a fresh draw
    /\ (~last.was_in_burst /\ last.status \notin {"none", "RateLimitError"}
          /\ p.failure_rate > 0) => last.drew >= 1

\* C9: under the burst pattern the call that triggers a burst is followed by
\* at least 2 and at most 4 calls that fail without a draw, after which the
\* provider is out of the burst and the next call is decided by a draw.
C9_BurstLength ==
  pc = "harness" => (BurstClaim(Tool, tool_last) /\ BurstClaim(Llm, llm_last))

\* a burst of the tool provider has just ended
C9_Witness ==
  /\ pc = "harness"
  /\ Tool.kind = "mock_tool"
  /\ Tool.failure_pattern = "burst"
  /\ tool_last.was_in_burst
  /\ ~Tool.burst_state.in_burst
  /\ hist.forced >= 2

\* C10: a MockToolProvider with failure_rate 1.0 raises the mock failure on
\* every execute call, under every pattern and for every tool name.
C10_AlwaysFails ==
  (pc = "harness" /\ Tool.kind = "mock_tool" /\ Tool.failure_rate = RateDen)
    => /\ tool_last.status \in {"none", "MockToolFailure"}
       /\ hist.tool_faults = Tool.call_count

\* such a provider has been called several times
C10_Witness ==
  /\ pc = "harness"
  /\ Tool.kind = "mock_tool"
  /\ Tool.failure_rate = RateDen
  /\ Tool.failure_pattern = "random"
  /\ Tool.call_count >= 3
  /\ tool_last.status = "MockToolFailure"

FreshBurstState == [in_burst |-> FALSE, burst_remaining |-> 0]

\* a provider with failure rate 0.0 has never failed by its pattern, never
\* drawn from its random stream and never touched burst_state
NeverEvaluates(p, last, faults) ==
  (p.kind \in {"mock_tool", "mock_llm"} /\ p.failure_rate = 0)
    => /\ faults = 0
       /\ last.status \notin {"MockToolFailure", "MockLLMFailure"}
       /\ last.drew = 0
       /\ p.rng_pos = 0
       /\ p.burst_state = FreshBurstState

\* C11: with failure rate 0.0 the fault-pattern evaluator answers "no
\* failure" on every call under every pattern, consumes no random sample and
\* leaves burst_state as it was.
C11_ZeroRateNeverFails ==
  pc = "harness"
    => /\ NeverEvaluates(Tool, tool_last, hist.tool_faults)
       /\ NeverEvaluates(Llm, llm_last, hist.llm_faults)

\* a burst-pattern tool provider with rate 0.0 has answered several calls
C11_Witness ==
  /\ pc = "harness"
  /\ Tool.kind = "mock_tool"
  /\ Tool.failure_rate = 0
  /\ Tool.failure_pattern = "burst"
  /\ Tool.call_count >= 3
  /\ tool_last.status = "ok"

\* C12: with rate_limit_after = k the call numbered n raises RateLimitError
\* iff n > k, and such a call draws no random sample, leaves burst_state
\* alone and sleeps for no latency.
C12_RateLimit ==
  [][(/\ pc = "harness"
      /\ Llm.kind = "mock_llm"
      /\ llm_provider' # llm_provider
      /\ Llm.rate_limit_after # None)
       => /\ llm_provider'.call_count = Llm.call_count + 1
          /\ IF llm_provider'.call_count > Llm.rate_limit_after
               THEN /\ llm_last'.status = "RateLimitError"
                    /\ llm_provider'.rng_pos = Llm.rng_pos
                    /\ llm_provider'.burst_state = Llm.burst_state
                    /\ llm_provider'.slept_ms = Llm.slept_ms
                    /\ hist'.llm_faults = hist.llm_faults
               ELSE llm_last'.status # "RateLimitError"]_vars

\* a call was rejected by the rate limit in the middle of a burst, after the
\* three calls under the limit
C12_Witness ==
  /\ pc = "harness"
  /\ Llm.kind = "mock_llm"
  /\ Llm.rate_limit_after = 3
  /\ Llm.call_count = 4
  /\ llm_last.status = "RateLimitError"
  /\ Llm.burst_state.in_burst
  /\ Llm.slept_ms = 0

\* the token counts of a call that reaches the generation step
PromptTokens(message) == IF message.len \div 4 >= 1 THEN message.len \div 4 ELSE 1

TextLen(ratio) == IF ratio < RateDen THEN (CannedTextLen * ratio) \div RateDen
                  ELSE CannedTextLen

CompletionTokens(p, message, tools) ==
  IF tools /\ message.keyword THEN 25
  ELSE IF TextLen(p.completeness_ratio) \div 4 >= 1
    THEN TextLen(p.completeness_ratio) \div 4
  ELSE 1

TotalTokens(p, message, tools) ==
  PromptTokens(message) + CompletionTokens(p, message, tools)

UnknownToolCalled ==
  pc = "harness" /\ tool_last.tool_name \notin {"none", "get_weather", "search"}

\* C23 as stated: execute with a tool name other than get_weather and search
\* fails with the unknown-tool error and returns no result, for every
\* provider configuration.
C23_AlwaysUnknownToolError ==
  UnknownToolCalled => (tool_last.status = "UnknownTool" /\ tool_last.result = NoResult)

\* C23: execute with a tool name other than get_weather and search never
\* returns a result: it raises the mock tool failure when the fault pattern
\* fails the call, which is decided first, and the unknown-tool error
\* otherwise; with failure rate 0 it is always the unknown-tool error.
C23_UnknownToolNeverReturns ==
  UnknownToolCalled =>
    /\ tool_last.result = NoResult
    /\ tool_last.status \in {"UnknownTool", "MockToolFailure"}
    /\ tool_provider.failure_rate = 0 => tool_last.status = "UnknownTool"
    /\ tool_provider.failure_rate = RateDen => tool_last.status = "MockToolFailure"

C23_Witness ==
  /\ UnknownToolCalled
  /\ tool_provider.failure_rate \in 1..(RateDen - 1)
  /\ tool_provider.completeness_ratio < RateDen
  /\ tool_provider.call_count >= 2
  /\ tool_last.status = "UnknownTool"
  /\ tool_last.result = NoResult

\* the provider under test in the harness
UnderTest == IF Tool.kind = "mock_tool" THEN Tool ELSE Llm

\* C28: call_count of a mock provider equals the number of call/execute
\* invocations made on it so far, whatever their outcome (a result, a rate
\* limit error, a pattern failure, a token limit error, an unknown tool): each
\* invocation adds exactly 1, and the counter never decreases or restarts.
C28_CountsEveryInvocation ==
  pc = "harness" => UnderTest.call_count = hist.calls

C28_Witness ==
  /\ pc = "harness"
  /\ Llm.kind = "mock_llm"
  /\ Llm.rate_limit_after = 3
  /\ llm_last.status = "RateLimitError"
  /\ hist.llm_faults >= 1
  /\ hist.calls = 5
  /\ Llm.call_count = 5

BurstStateOk(p) ==
  p.kind \in {"mock_tool", "mock_llm"} =>
    /\ p.burst_state.in_burst <=> p.burst_state.burst_remaining > 0
    /\ p.burst_state.burst_remaining >= 0
    /\ p.burst_state.burst_remaining <= 4
    /\ p.failure_pattern \in {"random", "periodic"}
         => p.burst_state = [in_burst |-> FALSE, burst_remaining |-> 0]

\* C29: between calls in_burst is true iff burst_remaining > 0, and
\* burst_remaining is between 0 and 4; under the random and periodic patterns
\* burst_state keeps its initial value (not in a burst, nothing remaining).
C29_BurstStateConsistent ==
  pc = "harness" => (BurstStateOk(Tool) /\ BurstStateOk(Llm))

\* a tool provider in the last call of a burst that was drawn with length 4
C29_Witness ==
  /\ pc = "harness"
  /\ Tool.kind = "mock_tool"
  /\ Tool.failure_pattern = "burst"
  /\ Tool.burst_state = [in_burst |-> TRUE, burst_remaining |-> 1]
  /\ hist.forced = 3
  /\ tool_last.status = "MockToolFailure"

\* the pattern fails the most recent execute whatever was drawn
CertainToolFault ==
  \/ Tool.failure_rate >= RateDen
  \/ tool_last.was_in_burst
  \/ (Tool.failure_pattern = "periodic" /\ Tool.failure_rate > 0
        /\ Tool.call_count % (RateDen \div Tool.failure_rate) = 0)

\* C31: execute counts the call, then sleeps for the configured latency, then
\* evaluates the fault pattern, then resolves the tool name: every call, also
\* one the pattern fails, has slept the full latency, the pattern sees the
\* incremented counter, and a call the pattern fails raises the mock failure
\* whatever its tool name.
C31_ExecuteOrder ==
  (pc = "harness" /\ Tool.kind = "mock_tool") =>
    /\ Tool.slept_ms = Tool.call_count * Tool.latency_ms
    /\ (tool_last.status # "none" /\ CertainToolFault)
         => tool_last.status = "MockToolFailure"
    /\ tool_last.status = "UnknownTool" => ~CertainToolFault

\* a failed call for an unknown tool has slept like every other call
C31_Witness ==
  /\ pc = "harness"
  /\ Tool.kind = "mock_tool"
  /\ Tool.failure_pattern = "periodic"
  /\ Tool.call_count = 2
  /\ Tool.slept_ms = 2 * Tool.latency_ms
  /\ Tool.latency_ms > 0
  /\ tool_last.tool_name = "get_time"
  /\ tool_last.status = "MockToolFailure"
  /\ hist.tool_faults = 1

\* ---------------------------------------------------------- bench claims
\* the operations both agents have gone through
Replayed == 1..Len(bench.out_b)

C15_DisabledIsAbsent ==
  bench.case = "disabled" =>
    /\ bench.built_a = bench.built_b
    /\ \A i \in Replayed : bench.out_a[i] = bench.out_b[i]
    /\ Len(bench.out_b) = Len(bench.ops) => bench.a = bench.b

C15_Witness ==
  /\ bench.case = "disabled"
  /\ {bench.fc_a.profiles[i].name : i \in 1..Len(bench.fc_a.profiles)}
       = {"rate_limits", "intermittent_failures"}
  /\ bench.cfg.tool_failure_rate = None
  /\ Len(bench.out_b) = 2
  /\ \A i \in 1..2 : bench.ops[i].kind = "invoke" /\ bench.out_a[i].status = "ok"

\* the constructor parameters of an agent's mock providers
ProviderParams(agent) ==
  [llm_latency_ms |-> agent.llm_provider.latency_ms,
   tool_latency_ms |-> agent.tool_provider.latency_ms,
   llm_failure_rate |-> agent.llm_provider.failure_rate,
   tool_failure_rate |-> agent.tool_provider.failure_rate,
   llm_failure_pattern |-> agent.llm_provider.failure_pattern,
   tool_failure_pattern |-> agent.tool_provider.failure_pattern,
   rate_limit_after |-> agent.llm_provider.rate_limit_after,
   max_tokens |-> agent.llm_provider.max_tokens,
   llm_completeness_ratio |-> agent.llm_provider.completeness_ratio,
   tool_completeness_ratio |-> agent.tool_provider.completeness_ratio]

ParamNames == DOMAIN ProviderParams(create_mock_agent(0, 0, 0))

RecognizedProfiles ==
  {"high_latency", "intermittent_failures", "rate_limits", "token_limits",
   "partial_responses"}

\* the provider parameters a profile name stands for
Owned(name) ==
  IF name = "high_latency" THEN {"llm_latency_ms", "tool_latency_ms"}
  ELSE IF name = "intermittent_failures"
    THEN {"llm_failure_rate", "tool_failure_rate", "llm_failure_pattern",
          "tool_failure_pattern"}
  ELSE IF name = "rate_limits" THEN {"rate_limit_after"}
  ELSE IF name = "token_limits" THEN {"max_tokens"}
  ELSE IF name = "partial_responses"
    THEN {"llm_completeness_ratio", "tool_completeness_ratio"}
  ELSE {}

\* the list without its i-th profile
Without(ps, i) == SubSeq(ps, 1, i - 1) \o SubSeq(ps, i + 1, Len(ps))

\* the parameters of the agent built in mock mode with the profiles ps enabled
BuiltWith(ps) ==
  ProviderParams(create_from_config(bench.cfg, FaultInjectionConfig(TRUE, ps)))

\* profiles of the same name carry the same parameters
NamesDetermineParameters(ps) ==
  \A i, j \in 1..Len(ps) : ps[i].name = ps[j].name => ps[i].parameters = ps[j].parameters

\* each profile overrides only its own parameters, a list yields the overrides
\* of each name it holds, an unrecognized name changes nothing
Additive(ps) ==
  /\ \A i \in 1..Len(ps) :
       \A k \in ParamNames \ Owned(ps[i].name) :
         ProviderParams(bench.built_a)[k] = BuiltWith(Without(ps, i))[k]
  /\ \A i \in 1..Len(ps) :
       (\A j \in 1..(i - 1) : ps[j].name # ps[i].name) =>
         \A k \in Owned(ps[i].name) :
           ProviderParams(bench.built_a)[k] = BuiltWith(<<ps[i]>>)[k]
  /\ \A i \in 1..Len(ps) :
       ps[i].name \notin RecognizedProfiles =>
         ProviderParams(bench.built_a) = BuiltWith(Without(ps, i))

\* C16 as stated: in mock mode with fault injection enabled the profiles are
\* independent and additive, and the result does not depend on the order of
\* the profiles in the list, whatever the list.
C16_OrderIndependent ==
  bench.case = "reordered" =>
    /\ Additive(bench.fc_a.profiles)
    /\ bench.built_a = bench.built_b

\* C16: in mock mode with fault injection enabled each recognized profile
\* overrides only its own provider parameters, enabling two profiles yields
\* both sets of overrides, unrecognized profile names change no provider
\* parameter, and the result does not depend on the order of the profiles
\* provided profiles of the same name carry the same parameters; of two
\* profiles of one name the first in the list is the one applied.
C16_ProfilesCompose ==
  bench.case = "reordered" =>
    /\ Additive(bench.fc_a.profiles)
    /\ NamesDetermineParameters(bench.fc_a.profiles) => bench.built_a = bench.built_b

C16_Witness ==
  /\ bench.case = "reordered"
  /\ Len(bench.fc_a.profiles) = 2
  /\ bench.fc_a.profiles[1].name = "token_limits"
  /\ bench.fc_a.profiles[2].name = "intermittent_failures"
  /\ bench.built_a.llm_provider.max_tokens = 30
  /\ bench.built_a.tool_provider.failure_rate = 2
  /\ bench.built_a.llm_provider.failure_pattern = "burst"
  /\ bench.built_b = bench.built_a

FaultStatuses == {"RateLimitError", "TokenLimitError", "MockLLMFailure", "MockToolFailure"}

\* C17: in real mode create_from_config ignores the fault configuration: for
\* any fault_config the created agent's providers are those created with no
\* fault_config and behave the same, and no RateLimitError, TokenLimitError or
\* pattern-triggered failure is raised.
C17_RealIgnoresFaults ==
  bench.case = "real" =>
    /\ bench.built_a = bench.built_b
    /\ \A i \in Replayed : bench.out_a[i] = bench.out_b[i]
    /\ Len(bench.out_b) = Len(bench.ops) => bench.a = bench.b
    /\ \A i \in 1..Len(bench.out_a) :
         bench.out_a[i].status \notin FaultStatuses /\ bench.out_a[i].llm.status = "ok"

C17_Witness ==
  /\ bench.case = "real"
  /\ bench.fc_a.enabled
  /\ {bench.fc_a.profiles[i].name : i \in 1..Len(bench.fc_a.profiles)}
       = {"rate_limits", "token_limits"}
  /\ Len(bench.out_b) = 2
  /\ \A i \in 1..2 : bench.ops[i] = [kind |-> "invoke", message |-> MsgParis, tools |-> TRUE]
  /\ bench.out_a[2].tool_calls = 1

\* calls the tool provider received between two states of an agent, counted
\* by the provider where it counts them
ToolCallsMade(before, after, out) ==
  IF before.tool_provider.kind = "real_tool" THEN out.tool_calls
  ELSE after.tool_provider.call_count - before.tool_provider.call_count

\* one invoke: before and after are the agent around it, out what came back
OneInvoke(before, after, out) ==
  /\ after.llm_provider.call_count = before.llm_provider.call_count + 1
  /\ out.llm_calls = 1
  /\ ToolCallsMade(before, after, out) \in {0, 1}
  /\ ToolCallsMade(before, after, out) = 1
       <=> (out.llm.status = "ok" /\ out.llm.kind = "tool_calls")
  /\ out.llm.status # "ok" =>
       /\ out.status = out.llm.status
       /\ after.tool_provider = before.tool_provider
  /\ ToolCallsMade(before, after, out) = 1 => out.status = out.tool
  /\ (out.llm.status = "ok" /\ ToolCallsMade(before, after, out) = 0) => out.status = "ok"

\* C18: each invoke makes exactly one LLM provider call and at most one tool
\* provider call, the latter only if the LLM response contains a tool call;
\* there are no retries: if either provider raises, that exception comes out
\* of invoke and no further provider call is made.
C18_SingleCalls ==
  [][bench.case \notin {"none", "family"} =>
       /\ (Len(bench'.out_a) > Len(bench.out_a)
             /\ bench'.ops[Len(bench'.out_a)].kind = "invoke")
            => OneInvoke(bench.a, bench'.a, bench'.out_a[Len(bench'.out_a)])
       /\ (Len(bench'.out_b) > Len(bench.out_b)
             /\ bench'.ops[Len(bench'.out_b)].kind = "invoke")
            => OneInvoke(bench.b, bench'.b, bench'.out_b[Len(bench'.out_b)])]_vars

C18_Witness ==
  /\ bench.case = "same"
  /\ Len(bench.out_a) = 2
  /\ \A i \in 1..2 : bench.ops[i] = [kind |-> "invoke", message |-> MsgParis, tools |-> TRUE]
  /\ bench.out_a[1].status = "MockLLMFailure"
  /\ bench.out_a[1].tool_calls = 0
  /\ bench.out_a[2].status = "MockToolFailure"
  /\ bench.a.llm_provider.call_count = 2
  /\ bench.a.tool_provider.call_count = 1

\* C19: invoke_child_agent with a child_name that is not a key of child_agents
\* raises ChildAgentNotFoundError listing the available names at once: no
\* provider of the parent or of any child is called and no provider state
\* changes; with a present name it invokes exactly that child, once.
C19_ChildLookup ==
  [][(bench.case = "family" /\ Len(bench'.calls) > Len(bench.calls)) =>
       LET call == bench'.calls[Len(bench'.calls)]
           before == bench.parent
           after == bench'.parent
       IN /\ DOMAIN after.child_agents = DOMAIN before.child_agents
          /\ after.llm_provider = before.llm_provider
          /\ after.tool_provider = before.tool_provider
          /\ \A c \in DOMAIN before.child_agents \ {call.child_name} :
               after.child_agents[c] = before.child_agents[c]
          /\ IF call.child_name \notin DOMAIN before.child_agents
               THEN /\ call.status = "ChildAgentNotFoundError"
                    /\ call.available = DOMAIN before.child_agents
                    /\ after = before
               ELSE /\ call.status # "ChildAgentNotFoundError"
                    /\ after.child_agents[call.child_name].llm_provider.call_count
                         = before.child_agents[call.child_name].llm_provider.call_count + 1
                    /\ after.child_agents[call.child_name].tool_provider.call_count
                         - before.child_agents[call.child_name].tool_provider.call_count
                         \in {0, 1}]_vars

C19_Witness ==
  /\ bench.case = "family"
  /\ DOMAIN bench.parent.child_agents = ChildNames
  /\ Len(bench.calls) = 2
  /\ bench.calls[1].child_name = "planner"
  /\ bench.calls[1].status = "ok"
  /\ bench.parent.child_agents["planner"].llm_provider.call_count = 1
  /\ bench.parent.child_agents["planner"].tool_provider.call_count = 1
  /\ bench.calls[2] = [child_name |-> "ghost", status |-> "ChildAgentNotFoundError",
                       available |-> ChildNames]
  /\ bench.parent.child_agents["worker"].llm_provider.call_count = 0

\* ---------------------------------------------- fault configuration claims
\* an enabled fault_injection section has gone through the parser
ParsedEnabled ==
  /\ bench.case = "config"
  /\ bench.status \in {"ok", "ValueError"}
  /\ bench.section.present
  /\ bench.section.enabled

Listed == bench.section.profiles

\* C24: with enabled = true the parser raises for any listed profile name that
\* has no block of its own; it accepts unknown profile names that have a block,
\* with no validation of their parameters; the resulting configuration holds
\* exactly the listed profiles, in listed order, each with its block.
C24_ListedProfilesKept ==
  ParsedEnabled =>
    /\ (\E i \in 1..Len(Listed) : Listed[i] \notin DOMAIN bench.section.blocks)
         => bench.status = "ValueError"
    /\ (\A i \in 1..Len(Listed) :
          Listed[i] \in DOMAIN bench.section.blocks /\ Listed[i] \notin RecognizedProfiles)
         => bench.status = "ok"
    /\ bench.status = "ok" =>
         /\ ~bench.fc.is_none /\ bench.fc.enabled
         /\ Len(bench.fc.profiles) = Len(Listed)
         /\ \A i \in 1..Len(Listed) :
              bench.fc.profiles[i]
                = [name |-> Listed[i], parameters |-> bench.section.blocks[Listed[i]]]

C24_Witness ==
  /\ ParsedEnabled
  /\ bench.status = "ok"
  /\ Listed = <<"custom", "rate_limits">>
  /\ bench.fc.profiles[1].name = "custom"
  /\ "max_tokens" \in DOMAIN bench.fc.profiles[1].parameters
  /\ bench.fc.profiles[1].parameters.max_tokens < 0
  /\ bench.fc.profiles[2] = [name |-> "rate_limits", parameters |-> [trigger_after_calls |-> 1]]

\* the values of a block are in range, with `least` the smallest limit taken
InRange(name, block, least) ==
  \A key \in DOMAIN block :
    /\ (name = "intermittent_failures" /\ key \in {"llm_failure_rate", "tool_failure_rate"})
         => (0 <= block[key] /\ block[key] <= RateDen)
    /\ (name = "intermittent_failures" /\ key = "failure_pattern")
         => block[key] \in {"random", "periodic", "burst"}
    /\ (name = "partial_responses" /\ key = "completeness_ratio")
         => (0 <= block[key] /\ block[key] <= RateDen)
    /\ (name = "rate_limits" /\ key = "trigger_after_calls") => block[key] >= least
    /\ (name = "token_limits" /\ key = "max_tokens") => block[key] >= least
    /\ (name = "token_limits" /\ key = "exceed_by") => block[key] >= 0
    /\ (name = "high_latency" /\ key \in {"llm_latency_ms", "tool_latency_ms"})
         => block[key] >= 0

\* the section is accepted exactly when every listed block is in range
AcceptsExactly(least) ==
  (ParsedEnabled /\ \A i \in 1..Len(Listed) : Listed[i] \in DOMAIN bench.section.blocks) =>
    (bench.status = "ok"
       <=> \A i \in 1..Len(Listed) :
             InRange(Listed[i], bench.section.blocks[Listed[i]], least))

\* C25 as stated: a rate or ratio is accepted iff it is in [0,1], a limit
\* (trigger_after_calls, max_tokens) iff it is a non-negative integer, a
\* failure pattern iff it is random, periodic or burst; every rejected value
\* makes loading fail.
C25_LimitsFromZero == AcceptsExactly(0)

\* C25: a rate or ratio is accepted iff it is in [0,1], a limit
\* (trigger_after_calls, max_tokens) iff it is an integer of at least 1, a
\* failure pattern iff it is random, periodic or burst (latencies and
\* exceed_by iff non-negative); every rejected value makes the parser raise.
C25_ParameterRanges == AcceptsExactly(1)

C25_Witness ==
  /\ ParsedEnabled
  /\ Listed = <<"rate_limits", "partial_responses">>
  /\ DOMAIN bench.section.blocks = {"rate_limits", "partial_responses"}
  /\ bench.section.blocks["rate_limits"] = [trigger_after_calls |-> 0]
  /\ bench.section.blocks["partial_responses"] = [completeness_ratio |-> 0]
  /\ bench.status = "ValueError"

\* the positions of the profiles called name, restated
Hits(fc, name) == {i \in 1..Len(fc.profiles) : fc.profiles[i].name = name}

LookupDone == bench.case = "config" /\ bench.lookup # NoLookup

\* C26: get_profile returns the first profile of that name in list order, or
\* none; is_profile_enabled is true iff some profile has the name;
\* get_parameter returns that first profile's value for the key, or the
\* default when the profile or the key is absent; the lookups always return
\* and leave the configuration as it was.
C26_FirstMatchLookups ==
  [][(bench.case = "config" /\ bench.lookup = NoLookup /\ bench'.lookup # NoLookup) =>
       LET fc == bench.fc
           l == bench'.lookup
           hits == Hits(fc, l.name)
       IN /\ bench'.fc = fc
          /\ bench'.section = bench.section
          /\ bench'.status = bench.status
          /\ l.enabled <=> hits # {}
          /\ hits = {} => (l.profile = NoProfile /\ l.value = l.default)
          /\ hits # {} =>
               \E i \in hits :
                 /\ \A j \in hits : i <= j
                 /\ l.profile = fc.profiles[i]
                 /\ l.value = IF l.key \in DOMAIN fc.profiles[i].parameters
                                THEN fc.profiles[i].parameters[l.key]
                                ELSE l.default]_vars

C26_Witness ==
  /\ LookupDone
  /\ bench.lookup.name = "intermittent_failures"
  /\ bench.lookup.key = "llm_failure_rate"
  /\ bench.lookup.default = 7
  /\ Len(bench.fc.profiles) = 2
  /\ bench.fc.profiles[1] = FaultProfile("intermittent_failures", [failure_pattern |-> "periodic"])
  /\ bench.fc.profiles[2].name = "intermittent_failures"
  /\ "llm_failure_rate" \in DOMAIN bench.fc.profiles[2].parameters
  /\ bench.lookup.profile = bench.fc.profiles[1]
  /\ bench.lookup.enabled
  /\ bench.lookup.value = 7

\* ------------------------------------------------------ hierarchy claims
HierarchyBuilt == bench.case = "hierarchy" /\ bench.status \in {"built", "invoked"}

\* the agent built from declared node i
BuiltFrom(i) == bench.built[CHOOSE x \in 1..Len(bench.built) : bench.built[x].agent_id = i]

SiblingsShareName ==
  \E i, j \in 2..bench.agent.n :
    /\ i # j
    /\ bench.agent.parent[i] = bench.agent.parent[j]
    /\ ChildKey(bench.agent, i) = ChildKey(bench.agent, j)

\* C27: exactly one agent is built per declared node; each node's child_agents
\* maps every distinct child name to the agent built from the last declared
\* child of that name; the number of agents reachable from the root equals
\* the number of declared nodes iff no two siblings share a name.
C27_OneAgentPerNode ==
  HierarchyBuilt =>
    LET doc == bench.agent IN
    /\ Len(bench.built) = doc.n
    /\ \A i \in 1..doc.n :
         Cardinality({x \in 1..Len(bench.built) : bench.built[x].agent_id = i}) = 1
    /\ bench.root = BuiltFrom(1)
    /\ \A i \in 1..doc.n :
         /\ DOMAIN BuiltFrom(i).child_agents = {ChildKey(doc, j) : j \in Children(doc, i)}
         /\ \A j \in Children(doc, i) :
              (\A l \in Children(doc, i) : ChildKey(doc, l) = ChildKey(doc, j) => l <= j)
                => BuiltFrom(i).child_agents[ChildKey(doc, j)] = BuiltFrom(j)
    /\ (bench.total_agents = doc.n) <=> ~SiblingsShareName
    /\ bench.total_agents <= doc.n

C27_Witness ==
  /\ HierarchyBuilt
  /\ bench.agent.n = 4
  /\ bench.agent.parent = (2 :> 1 @@ 3 :> 1 @@ 4 :> 2)
  /\ bench.agent.agent_name = <<"planner", "worker", "worker", "planner">>
  /\ Len(bench.built) = 4
  /\ bench.total_agents = 2
  /\ bench.root.child_agents["worker"].agent_id = 3

\* the providers create_from_config makes from the mode, the settings and the
\* fault configuration of the run alone
RunProviders == create_from_config([mode |-> bench.mode, tool_failure_rate |-> None], bench.fc)

\* the provider objects an agent refers to
ProviderRefs(agent) == {agent.llm_provider, agent.tool_provider}

\* the constructor arguments of a provider, its mutable state set aside
Parameters(p) ==
  IF p.kind = "real_tool" THEN p
  ELSE [p EXCEPT !.call_count = 0, !.rng_pos = 0, !.slept_ms = 0,
                 !.burst_state = [in_burst |-> FALSE, burst_remaining |-> 0]]

\* C37: every agent of a hierarchy holds providers built from the mode, the
\* settings and the fault configuration of the run, whatever its own node
\* declares, so any two agents have providers with equal parameters; no
\* provider object is held by two agents, and invoking one agent leaves the
\* call counters, burst state and random streams of all the others as new.
C37_SameSettingsSeparateProviders ==
  HierarchyBuilt =>
    /\ Len(bench.objects) = 2 * bench.agent.n
    /\ \A x \in 1..Len(bench.built) :
         LET agent == bench.built[x]
             llm == bench.objects[agent.llm_provider]
             tool == bench.objects[agent.tool_provider]
         IN /\ agent.llm_provider # agent.tool_provider
            /\ Parameters(llm) = RunProviders.llm_provider
            /\ Parameters(tool) = RunProviders.tool_provider
            /\ agent.agent_id # bench.invoked =>
                 /\ llm = RunProviders.llm_provider
                 /\ tool = RunProviders.tool_provider
            /\ agent.agent_id = bench.invoked => llm.call_count = 1
            /\ \A y \in 1..Len(bench.built) :
                 x # y => ProviderRefs(agent) \cap ProviderRefs(bench.built[y]) = {}

\* the last of four nodes declares a failure rate of its own, the run is in
\* mock mode with burst failures, and the root has been invoked: its tool
\* provider failed and is in a burst, its child's providers are as new
C37_Witness ==
  /\ HierarchyBuilt
  /\ bench.agent.n = 4
  /\ bench.agent.own_rate = RateDen
  /\ bench.mode = "mock"
  /\ bench.invoked = 1
  /\ bench.objects[BuiltFrom(1).llm_provider].call_count = 1
  /\ bench.objects[BuiltFrom(1).tool_provider].burst_state.in_burst
  /\ bench.objects[BuiltFrom(4).llm_provider].call_count = 0
  /\ bench.objects[BuiltFrom(4).tool_provider].failure_rate = 2
  /\ ~bench.objects[BuiltFrom(4).tool_provider].burst_state.in_burst

SpanKinds == {"INTERNAL", "CLIENT", "SERVER", "PRODUCER", "CONSUMER"}

\* the span_kind string declared for node i
DeclaredSpanKind(i) == IF i = bench.agent.n THEN bench.agent.span_kind ELSE NoSpanKind

\* C38: the agent built from a node has the node's span_kind iff that string
\* is one of INTERNAL, CLIENT, SERVER, PRODUCER, CONSUMER; with any other
\* string, or none, the agent has kind INTERNAL, and in every case all the
\* agents of the declaration are built.
C38_SpanKindOverride ==
  HierarchyBuilt =>
    /\ Len(bench.built) = bench.agent.n
    /\ \A i \in 1..bench.agent.n :
         /\ \E x \in 1..Len(bench.built) : bench.built[x].agent_id = i
         /\ BuiltFrom(i).span_kind =
              IF DeclaredSpanKind(i) \in SpanKinds THEN DeclaredSpanKind(i) ELSE "INTERNAL"

\* a child declared with span_kind "client" is built with kind INTERNAL, and
\* its parent is built after it
C38_Witness ==
  /\ HierarchyBuilt
  /\ bench.agent.n = 3
  /\ bench.agent.span_kind = "client"
  /\ Len(bench.built) = 3
  /\ BuiltFrom(3).span_kind = "INTERNAL"
  /\ bench.root.agent_id = 1

\* --------------------------------------------------------- invoke claims
OpDone == bench.case = "invoke" /\ bench.last.op \in {"invoke", "call"}

\* the user messages that name the weather or the temperature in any case:
\* "WEATHER", "weathers", "Temperature!"
WeatherTexts ==
  {<<"W", "E", "A", "T", "H", "E", "R">>,
   <<"w", "e", "a", "t", "h", "e", "r", "s">>,
   <<"T", "e", "m", "p", "e", "r", "a", "t", "u", "r", "e", "!">>}

LastUserText == bench.last.messages[Len(bench.last.messages)]

\* a returned response is a tool call exactly for tools and a weather word
ToolCallIffAsked ==
  bench.last.status \in {"ok", "MockToolFailure"} =>
    /\ bench.last.response.status = "ok"
    /\ bench.last.response.kind \in {"tool_calls", "text"}
    /\ bench.last.response.kind = "tool_calls"
         <=> (bench.last.tools /\ LastUserText \in WeatherTexts)

\* C32 as stated: a call that reaches generation returns a tool call iff
\* tools are supplied and the lowercased last message contains "weather" or
\* "temperature", and a text response otherwise; an agent invoke executes a
\* tool iff the user message contains one of the two words.
C32_InvokeAlwaysExecutes ==
  OpDone =>
    /\ ToolCallIffAsked
    /\ bench.last.op = "invoke"
         => (bench.last.tool_calls = 1 <=> LastUserText \in WeatherTexts)

\* C32: a call that returns a response returns a tool call iff tools are
\* supplied and the lowercased last message contains "weather" or
\* "temperature", and a text response otherwise; an agent invoke executes a
\* tool iff the user message contains one of the two words and its LLM call
\* returned a response.
C32_ToolCallIffWeatherWord ==
  OpDone =>
    /\ ToolCallIffAsked
    /\ bench.last.op = "invoke"
         => (bench.last.tool_calls = 1
               <=> (LastUserText \in WeatherTexts /\ bench.last.response.status = "ok"))

\* an upper-case weather word made invoke execute the tool
C32_Witness ==
  /\ OpDone
  /\ bench.last.op = "invoke"
  /\ Len(LastUserText) = 7
  /\ LastUserText[1] = "W"
  /\ LastUserText[2] = "E"
  /\ bench.last.response.kind = "tool_calls"
  /\ bench.last.tool_calls = 1
  /\ bench.last.status = "ok"

RECURSIVE ContentChars(_)

\* the characters of the contents of all messages
ContentChars(messages) ==
  IF messages = <<>> THEN 0 ELSE Len(Head(messages)) + ContentChars(Tail(messages))

\* the usage of a returned response, for a prompt of c characters
UsageFor(c) ==
  (OpDone /\ bench.last.response.status = "ok") =>
    /\ bench.last.response.prompt_tokens = Max(1, c \div 4)
    /\ bench.last.response.completion_tokens >= 1
    /\ bench.last.response.total_tokens
         = bench.last.response.prompt_tokens + bench.last.response.completion_tokens

\* C33 as stated: every returned response has prompt_tokens =
\* max(1, floor(C / 4)) with C the number of characters of the contents of
\* all messages, completion_tokens >= 1 and total_tokens = prompt_tokens +
\* completion_tokens.
C33_ContentsOnly == UsageFor(IF OpDone THEN ContentChars(bench.last.messages) ELSE 0)

\* C33: every returned response has prompt_tokens = max(1, floor(C / 4)) with
\* C the number of characters of the contents of all messages joined by
\* single spaces (one more character per message after the first),
\* completion_tokens >= 1 and total_tokens = prompt_tokens + completion_tokens.
C33_PromptTokens ==
  UsageFor(IF OpDone
             THEN ContentChars(bench.last.messages) + Len(bench.last.messages) - 1
             ELSE 0)

\* invoke("Hi!"): 36 + 3 characters of content, 40 characters of prompt
C33_Witness ==
  /\ OpDone
  /\ bench.last.op = "invoke"
  /\ LastUserText = <<"H", "i", "!">>
  /\ ContentChars(bench.last.messages) = 39
  /\ bench.last.response.status = "ok"
  /\ bench.last.response.prompt_tokens = 10
  /\ bench.last.response.total_tokens = 21

\* the completeness ratio of the LLM provider the operation was made on
LlmRatio == bench.agent.llm_provider.completeness_ratio

\* C34: on the text path with completeness_ratio p < 1 the text is the first
\* floor(len * p) characters of the canned string (the whole string for
\* p >= 1) and completion_tokens = max(1, floor(truncated_len / 4)), 1 even
\* for the empty text; on the tool-call path completion_tokens is 25 whatever
\* the ratio and nothing is truncated.
C34_CompletionTokens ==
  (OpDone /\ bench.last.response.status = "ok") =>
    /\ bench.last.response.kind = "text" =>
         /\ bench.last.response.text_len
              = IF LlmRatio < RateDen THEN (45 * LlmRatio) \div RateDen ELSE 45
         /\ bench.last.response.completion_tokens
              = IF bench.last.response.text_len < 4 THEN 1
                ELSE bench.last.response.text_len \div 4
    /\ bench.last.response.kind = "tool_calls" =>
         /\ bench.last.response.completion_tokens = 25
         /\ bench.last.response.text_len = 0
         /\ bench.last.op = "invoke" => bench.last.tool_calls = 1

\* ratio 0.0: the text is empty and still counts one completion token
C34_Witness ==
  /\ OpDone
  /\ LlmRatio = 0
  /\ bench.last.response.status = "ok"
  /\ bench.last.response.kind = "text"
  /\ bench.last.response.text_len = 0
  /\ bench.last.response.completion_tokens = 1

Truncated == bench.case = "invoke" /\ bench.last.op = "truncate"

RECURSIVE PrefixedEverywhere(_, _, _)

\* b has the shape of a, with every string cut to floor(len * ratio)
PrefixedEverywhere(a, b, ratio) ==
  /\ b.t = a.t
  /\ a.t = "str" => b.v = SubSeq(a.v, 1, (Len(a.v) * ratio) \div RateDen)
  /\ a.t = "num" => b.v = a.v
  /\ a.t = "dict" =>
       /\ DOMAIN b.v = DOMAIN a.v
       /\ \A k \in DOMAIN a.v : PrefixedEverywhere(a.v[k], b.v[k], ratio)
  /\ a.t = "list" =>
       /\ Len(b.v) = Len(a.v)
       /\ \A i \in 1..Len(a.v) : PrefixedEverywhere(a.v[i], b.v[i], ratio)

RECURSIVE PrefixedUnderKeys(_, _, _, _)

\* the same, but a list that is itself an element of a list is left as it is
PrefixedUnderKeys(a, b, ratio, in_list) ==
  /\ b.t = a.t
  /\ a.t = "str" => b.v = SubSeq(a.v, 1, (Len(a.v) * ratio) \div RateDen)
  /\ a.t = "num" => b.v = a.v
  /\ a.t = "dict" =>
       /\ DOMAIN b.v = DOMAIN a.v
       /\ \A k \in DOMAIN a.v : PrefixedUnderKeys(a.v[k], b.v[k], ratio, FALSE)
  /\ (a.t = "list" /\ in_list) => b.v = a.v
  /\ (a.t = "list" /\ ~in_list) =>
       /\ Len(b.v) = Len(a.v)
       /\ \A i \in 1..Len(a.v) : PrefixedUnderKeys(a.v[i], b.v[i], ratio, TRUE)

\* C35 as stated: with ratio p < 1 truncation keeps the shape of the result
\* at every nesting level (keys, sequence lengths and order, non-string
\* scalars) and replaces every string by its prefix of length floor(len * p);
\* with p >= 1 the result is returned unchanged.
C35_EveryStringCut ==
  Truncated =>
    IF bench.last.ratio >= RateDen THEN bench.last.truncated = bench.last.result
    ELSE PrefixedEverywhere(Dict(bench.last.result), Dict(bench.last.truncated),
                            bench.last.ratio)

\* C35: with ratio p < 1 truncation keeps the shape of the result at every
\* nesting level and replaces by its prefix of length floor(len * p) every
\* string that is a value of a dictionary or an element of a list held by a
\* dictionary; a list that is itself an element of a list is returned as it
\* is, strings included; with p >= 1 the result is returned unchanged.
C35_TruncationKeepsShape ==
  Truncated =>
    IF bench.last.ratio >= RateDen THEN bench.last.truncated = bench.last.result
    ELSE PrefixedUnderKeys(Dict(bench.last.result), Dict(bench.last.truncated),
                           bench.last.ratio, FALSE)

\* get_weather for ["Paris", ["Lyon"]] at ratio 0.2: the outer string is
\* cut, the list inside the list is not
C35_Witness ==
  /\ Truncated
  /\ bench.last.ratio = 1
  /\ "location" \in DOMAIN bench.last.result
  /\ bench.last.result["location"].t = "list"
  /\ DOMAIN bench.last.truncated
       = {"location", "temperature", "condition", "humidity", "wind_speed"}
  /\ Len(bench.last.truncated["location"].v) = 2
  /\ bench.last.truncated["location"].v[1] = Str(<<"P">>)
  /\ bench.last.truncated["location"].v[2] = List(<<Str(<<"L", "y", "o", "n">>)>>)
  /\ bench.last.truncated["condition"] = Str(<<"s">>)

\* --------------------------------------------------------- runner claims
IsRegistered(name) == name \in Registry

Names(rs) == [i \in 1..Len(rs) |-> rs[i].scenario_name]

NoneFailed(rs) == \A i \in 1..Len(rs) : rs[i].success

\* _execute_scenarios has returned its list
Collected ==
  \E i \in 1..Len(phases) : phases[i] = "ScenariosExecuted"

\* C1: once the configuration is loaded, the agent built and the scenario
\* results collected, run returns 0 if no result has success = false and
\* returns 1 otherwise.
C1_ExitCode ==
  (pc = "Done" /\ Collected)
    => outcome = Returned(IF NoneFailed(results) THEN 0 ELSE 1)

\* C2: an exception that escapes scenario.execute becomes a failed result of
\* zero duration in the list, and the run goes on with the next scenario.
C2_CrashIsolated ==
  hist.crashes > 0
    => /\ outcome.kind # "raised"
       /\ Cardinality({i \in 1..Len(run_results) :
                         ~run_results[i].success
                         /\ run_results[i].duration_seconds = 0}) >= hist.crashes

\* the configuration file is rejected by load_config or by
\* parse_fault_injection_config
LoadRaises ==
  \/ ~ValidConfig(config_file)
  \/ ~parse_fault_injection_config(config_file.fault_injection).ok

\* C3: when loading the configuration or building the agent raises, run
\* returns 1, no agent.invoke is made and the results stay empty.
C3_FatalBeforeScenarios ==
  (pc # "harness" /\ (LoadRaises \/ hist.build_raised))
    => /\ pc \in {"Init", "Done"}
       /\ pc = "Done" => outcome = Returned(1)
       /\ hist.invokes = 0
       /\ results = <<>>
       /\ run_results = <<>>
       /\ llm_provider = NoProvider
       /\ tool_provider = NoProvider

\* a run has ended on a profile that is listed without a parameter block
C3_Witness ==
  /\ pc = "Done"
  /\ ValidConfig(config_file)
  /\ ~parse_fault_injection_config(config_file.fault_injection).ok
  /\ outcome = Returned(1)

C5_SequentialOrder ==
  (pc \in {"Executing", "ScenariosExecuted", "Reported", "Validated", "Done"}
     /\ scenario_idx >= 1)
    => /\ Names(run_results)
            = SelectSeq(SubSeq(config.scenarios, 1, scenario_idx - 1), IsRegistered)
       /\ Collected
            => /\ results = run_results
               /\ Names(results) = SelectSeq(config.scenarios, IsRegistered)
       /\ summary # NoSummary
            => /\ summary.total = Len(results)
               /\ summary.total = summary.passed + summary.failed

\* two scenarios of three invokes each, with a skipped name, were recorded
C5_Witness ==
  /\ pc = "Reported"
  /\ Len(results) = 2
  /\ results[1].scenario_name = "multi_tool_chain"
  /\ results[2].scenario_name = "simple_tool_call"
  /\ summary.passed = 1
  /\ summary.failed = 1

\* C6: telemetry validation runs only with a validation section configured,
\* and whatever the validator returns or raises, run returns the exit code
\* that the scenario results give.
C6_ValidationNonFatal ==
  hist.validation # "none"
    => /\ config.validation # "absent"
       /\ outcome.kind # "raised"
       /\ exit_code = (IF NoneFailed(results) THEN 0 ELSE 1)
       /\ pc = "Done" => outcome = Returned(IF NoneFailed(results) THEN 0 ELSE 1)

\* the validator raised and run returned 0
C6_Witness ==
  /\ pc = "Done"
  /\ hist.validation = "raised"
  /\ outcome = Returned(0)

PhaseRank(phase) ==
  IF phase = "Init" THEN 1
  ELSE IF phase = "ConfigLoaded" THEN 2
  ELSE IF phase = "AgentBuilt" THEN 3
  ELSE IF phase = "ScenariosExecuted" THEN 4
  ELSE IF phase = "TelemetryValidated" THEN 5
  ELSE 6

\* C7: run passes through Init, ConfigLoaded, AgentBuilt, ScenariosExecuted,
\* (TelemetryValidated), Reported in this order: telemetry validation comes
\* after the scenarios and before the summary report.
C7_PhaseOrder ==
  \A i \in 1..Len(phases), j \in 1..Len(phases) :
     i < j => PhaseRank(phases[i]) < PhaseRank(phases[j])

\* C20: ToolFailureScenario executed on an agent whose tool provider is
\* MockToolProvider(failure_rate=1.0), when the LLM call succeeds and so the
\* tool is executed, returns a ScenarioResult with success = true and an
\* error_message that starts with "Expected tool failure:".
C20_ExpectedToolFailure ==
  [][(/\ InLoop
      /\ Current = "tool_failure"
      /\ tool_provider.kind = "mock_tool"
      /\ tool_provider.failure_rate = RateDen
      /\ tool_provider'.call_count = tool_provider.call_count + 1) =>
       /\ Len(run_results') = Len(run_results) + 1
       /\ LET result == run_results'[Len(run_results')] IN
          /\ result.scenario_name = "tool_failure"
          /\ result.success
          /\ Len(result.error_message) >= 3
          /\ SubSeq(result.error_message, 1, 3) = <<"Expected", "tool", "failure:">>]_vars

C20_Witness ==
  /\ pc = "Executing"
  /\ tool_provider.kind = "mock_tool"
  /\ tool_provider.failure_rate = RateDen
  /\ tool_provider.call_count = 1
  /\ Len(run_results) = 1
  /\ run_results[1].scenario_name = "tool_failure"
  /\ run_results[1].success
  /\ run_results[1].error_message
       = <<"Expected", "tool", "failure:", "Mock", "tool", "failure", "(pattern:">>

\* C21: an exception raised by agent.invoke yields success = true only in
\* ToolFailureScenario and only when it is the mock tool failure (the one
\* exception whose text matches); any other exception there, and any exception
\* in the five other scenarios, yields success = false with error_message set
\* to the exception text.
C21_OnlyExpectedFailureSucceeds ==
  [][(hist'.invokes = hist.invokes + 1 /\ hist'.raised # "ok") =>
       /\ Len(run_results') = Len(run_results) + 1
       /\ LET result == run_results'[Len(run_results')] IN
          /\ result.scenario_name = Current
          /\ result.success <=> (Current = "tool_failure" /\ hist'.raised = "MockToolFailure")
          /\ ~result.success =>
               result.error_message
                 = (IF hist'.raised = "MockToolFailure"
                      THEN <<"Mock", "tool", "failure", "(pattern:">>
                    ELSE IF hist'.raised = "MockLLMFailure"
                      THEN <<"Mock", "LLM", "failure", "(pattern:">>
                    ELSE IF hist'.raised = "RateLimitError"
                      THEN <<"Rate", "limit", "exceeded", "after">>
                    ELSE <<"Token", "limit", "exceeded:">>)]_vars

C21_Witness ==
  /\ Len(run_results) = 2
  /\ run_results[1].scenario_name = "conversation_context"
  /\ ~run_results[1].success
  /\ run_results[1].error_message = <<"Rate", "limit", "exceeded", "after">>
  /\ run_results[2].scenario_name = "tool_failure"
  /\ ~run_results[2].success
  /\ run_results[2].error_message = <<"Rate", "limit", "exceeded", "after">>
  /\ hist.raised = "RateLimitError"

\* a valid mock configuration with no fault injection, tool failure rate 0
\* and only registered scenario names, run where the agent's telemetry setup
\* does not raise and no exception escapes a scenario's execute
PlainMockRun ==
  /\ config_file.mode = "mock"
  /\ config_file.fault_injection \in {SectionAbsent, SectionDisabled}
  /\ config_file.tool_failure_rate = None
  /\ Len(config_file.scenarios) >= 1
  /\ \A i \in 1..Len(config_file.scenarios) : config_file.scenarios[i] \in Registry
  /\ hist.crashes = 0
  /\ ~hist.build_raised

\* C22: in mock mode with no fault injection and tool failure rate 0, a run
\* whose scenarios list contains only registered names produces one
\* ScenarioResult with success = true per entry and exit code 0.
C22_PlainMockRunPasses ==
  PlainMockRun =>
    /\ \A i \in 1..Len(run_results) :
         /\ run_results[i].success
         /\ run_results[i].scenario_name = config_file.scenarios[i]
    /\ outcome.kind # "raised"
    /\ pc = "Done" =>
         /\ outcome = Returned(0)
         /\ Len(results) = Len(config_file.scenarios)
         /\ \A i \in 1..Len(results) :
              /\ results[i].success
              /\ results[i].scenario_name = config_file.scenarios[i]

C22_Witness ==
  /\ PlainMockRun
  /\ config_file.scenarios = <<"simple_tool_call">>
  /\ pc = "Done"
  /\ outcome = Returned(0)
  /\ Len(results) = 1
  /\ results[1].success
  /\ results[1].scenario_name = "simple_tool_call"
  /\ llm_provider.call_count = 1
  /\ tool_provider.call_count = 1

\* the LLM provider of the root agent has a rate limit and is past it
PastRateLimit ==
  /\ llm_provider.kind = "mock_llm"
  /\ llm_provider.rate_limit_after # None
  /\ llm_provider.call_count > llm_provider.rate_limit_after

\* C30: the scenarios of a run share the one root agent and its providers are
\* not reset between them: the LLM call_count never goes down during the run,
\* every invoke adds to it, and once it has passed rate_limit_after every
\* later invoke, in this and in every later scenario, raises RateLimitError.
C30_RateLimitAbsorbing ==
  [][(InLoop /\ llm_provider.kind # "none" /\ llm_provider'.kind # "none") =>
       /\ llm_provider'.call_count >= llm_provider.call_count
       /\ llm_provider'.rate_limit_after = llm_provider.rate_limit_after
       /\ (hist'.invokes = hist.invokes + 1 /\ PastRateLimit) =>
            /\ hist'.raised = "RateLimitError"
            /\ llm_provider'.call_count = llm_provider.call_count + 1
            /\ scenario_idx' = scenario_idx + 1
            /\ Len(run_results') = Len(run_results) + 1
            /\ ~run_results'[Len(run_results')].success]_vars

\* the limit was passed in the first scenario and the second one was refused
C30_Witness ==
  /\ pc = "Executing"
  /\ PastRateLimit
  /\ llm_provider.rate_limit_after = 2
  /\ llm_provider.call_count = 4
  /\ Len(run_results) = 2
  /\ run_results[1].scenario_name = "conversation_context"
  /\ run_results[2].scenario_name = "simple_tool_call"
  /\ ~run_results[1].success
  /\ ~run_results[2].success
  /\ hist.raised = "RateLimitError"
  /\ hist.invokes = 4

\* the invokes a scenario's execute contains
ScriptedInvokes(name) ==
  IF name \in {"simple_tool_call", "tool_failure", "high_token_usage"} THEN 1
  ELSE IF name \in {"multi_tool_chain", "conversation_context"} THEN 3
  ELSE 2

\* C36: the invokes of a scenario are issued one at a time in script order,
\* each after the one before it has returned; the first invoke that raises
\* ends the scenario with exactly one result and no later invoke of it is
\* issued, so a scenario makes at most its scripted number of invokes (1, 3
\* or 2) and ends with exactly one result after the last of them.
C36_FirstRaiseEndsScenario ==
  [][(InLoop /\ hist'.invokes = hist.invokes + 1) =>
       LET iss == hist'.issued
           n == Len(iss.calls)
       IN /\ iss.name = Current
          /\ n >= 1
          /\ n <= ScriptedInvokes(Current)
          /\ n = (IF step = 0 THEN 1 ELSE Len(hist.issued.calls) + 1)
          /\ \A i \in 1..n : iss.calls[i] = Script(Current)[i]
          /\ \A i \in 1..(n - 1) : iss.raised[i] = "ok"
          /\ iss.raised[n] = hist'.raised
          /\ IF hist'.raised # "ok" \/ n = ScriptedInvokes(Current)
               THEN /\ scenario_idx' = scenario_idx + 1
                    /\ step' = 0
                    /\ Len(run_results') = Len(run_results) + 1
                    /\ run_results'[Len(run_results')].scenario_name = Current
               ELSE /\ scenario_idx' = scenario_idx
                    /\ run_results' = run_results]_vars

\* the second of three invokes raised and the scenario ended there
C36_Witness ==
  /\ pc = "Executing"
  /\ hist.issued.name = "multi_tool_chain"
  /\ hist.issued.raised = <<"ok", "MockToolFailure">>
  /\ Len(hist.issued.calls) = 2
  /\ Len(run_results) = 1
  /\ run_results[1].scenario_name = "multi_tool_chain"
  /\ ~run_results[1].success
  /\ scenario_idx = 2
  /\ step = 0

====
